---------------------------- MODULE Spec2Model ----------------------------
(***************************************************************************)
(* Verification model of pygerber's Gerber X3 interpretation pipeline.     *)
(*                                                                         *)
(* Part I  (specification Spec): Parser2Context, the parsing context of    *)
(*         the version 2 parser (parser2/context2.py): the interpreter     *)
(*         state, the main / region / block / step-and-repeat command      *)
(*         buffers and the operations on them.                             *)
(*                                                                         *)
(* Part II (specification SpecParser): Parser, the version 1 parser        *)
(*         (parser/parser.py), interpreting a stack of D01 tokens          *)
(*         (tokenizer/tokens/d01_draw.py) over a State (parser/state.py).  *)
(*                                                                         *)
(* Part III (specification SpecRegistry): the aperture registry, the       *)
(*         coordinate format and the stop flags of Parser2Context.         *)
(*                                                                         *)
(* Part IV (specification SpecVisitor): the dispatch of Node.visit on      *)
(*         AstVisitor (ast/visitor.py and ast/nodes).                      *)
(*                                                                         *)
(* Part V (specification SpecExpression): Grammar.expression, the macro    *)
(*         expressions of the pyparsing grammar.                           *)
(*                                                                         *)
(* Part VI (specification SpecDCodes): Grammar.d_codes and the commands    *)
(*         of aperture blocks and step-and-repeat under the root rule.     *)
(*                                                                         *)
(* Part VII (specification SpecMeta): Meta (pygerber/meta.py).             *)
(*                                                                         *)
(* Part VIII (specification SpecArc): the angles of a rasterized arc       *)
(*         (backend/rasterized_2d/draw_actions/draw_arc.py).               *)
(*                                                                         *)
(* Part IX (specification SpecBlocks): Grammar.aperture_block and          *)
(*         Grammar.step_repeat on bounded source texts.                    *)
(*                                                                         *)
(* Part X (specifications SpecFormatter, SpecRoundTrip, SpecDouble):       *)
(*         Formatter (gerberx3/formatter.py).                              *)
(*                                                                         *)
(* Part XI (specification SpecDocument): GerberDocument of the language    *)
(*         server (language_server/_server/documents/gerber.py).           *)
(*                                                                         *)
(* Part XII (specification SpecContexts): two Parser2Context objects made  *)
(*         from one Parser2ContextOptions.                                 *)
(***************************************************************************)
EXTENDS Naturals, Integers, Sequences, FiniteSets, TLC

VARIABLES
    options,                         \* Parser2Context.options
    state,                           \* Parser2Context.state (a State2 value)
    main_command_buffer,             \* Parser2Context.main_command_buffer
    region_command_buffer,           \* Optional[CommandBuffer2]
    block_command_buffer_stack,      \* list[CommandBuffer2]
    step_and_repeat_command_buffer,  \* Optional[CommandBuffer2]
    state_before_step_and_repeat,    \* Optional[State2]
    raised,                          \* exception raised by the last call
    returned,                        \* object handed over by the last call
    added,                           \* number of add_command calls so far
    open_order,                      \* history: containers in creation order
    last_op,                         \* history: the operation called last
    captured,                        \* history: the state at the last snapshot
    tokens,                          \* Parser.tokens
    parser_options,                  \* Parser.options (a ParserOptions)
    parser_state,                    \* Parser.state (a State value)
    draw_actions,                    \* Parser.draw_actions
    next_token,                      \* parse_iter: tokens yielded so far
    parser_raised,                   \* exception that left parse_iter
    log,                             \* logging.warning and callback records
    handle,                          \* Optional: what Parser.parse returned
    calls,                           \* history: update_drawing_state calls
    argument,                        \* history: the argument of the last call
    current_token,                   \* Parser2Context.current_token
    reached_program_stop,            \* Parser2Context.reached_program_stop
    reached_optional_stop,           \* Parser2Context.reached_optional_stop
    reached_end_of_file,             \* Parser2Context.reached_end_of_file
    visitor,                         \* the visitor object handed to Node.visit
    visited,                         \* what the visitor's own handlers recorded
    meta,                            \* a Meta object (pygerber/meta.py)
    formatter,                       \* a Formatter object (formatter.py)
    document,                        \* a GerberDocument (documents/gerber.py)
    loads,                           \* history: load_ast_from_code calls
    heap,                            \* the CommandBuffer2 objects, by identity
    contexts                         \* Parser2Context objects of one options

ctx_vars == << options, state, main_command_buffer, region_command_buffer,
               block_command_buffer_stack, step_and_repeat_command_buffer,
               state_before_step_and_repeat, raised, returned, added >>

history_vars == << open_order, last_op, captured, argument >>

parser_vars == << tokens, parser_options, parser_state, draw_actions,
                  next_token, parser_raised, log, handle, calls >>

stop_vars == << current_token, reached_program_stop, reached_optional_stop,
                reached_end_of_file >>

visitor_vars == << visitor, visited >>

\* the objects of the other classes of the repository
object_vars == << meta, formatter, document, loads, heap, contexts >>

vars == << ctx_vars, history_vars, parser_vars, stop_vars, visitor_vars,
          object_vars >>

----------------------------------------------------------------------------
(* Bounds of the model.                                                    *)

\* commands handed to add_command are 1..MaxCommands
MaxCommands == 2

\* buffers on the block stack at one time
MaxDepth == 2

----------------------------------------------------------------------------
(* Values.                                                                 *)

\* Optional[T]: None is the empty sequence, a present value a singleton.
None == << >>

Some(x) == << x >>

IsNone(o) == o = << >>

Unwrap(o) == o[1]

NoError == "none"

\* nothing handed over: the call returns None, or a reference to an object
\* the context still holds (the getters)
Nothing == [kind |-> "nothing"]

\* the call hands over an object the context no longer holds
Value(v) == [kind |-> "value", value |-> v]

Commands == 1 .. MaxCommands

\* the command an options' initial buffer is filled with
TemplateCommand == 0

\* aperture identifiers (Dnn) a file can define and select
ApertureIDs == {"D10", "D11"}

\* the apertures (Aperture2 objects) a definition can register
Apertures == {"Circle2", "Rectangle2"}

\* the coordinate formats (CoordinateParser objects) a file can declare
CoordinateFormats == {"FSLAX26Y26", "FSLAX24Y24"}

\* an empty immutable dictionary
EmptyDict == [key \in {} |-> None]

\* State2: the fields the context's buffer selection and snapshot read, the
\* aperture registry, the selected aperture and the coordinate format.
State2 == [is_region : BOOLEAN, is_aperture_block : BOOLEAN,
           is_step_and_repeat : BOOLEAN, polarity : {"Dark", "Clear"},
           apertures : UNION {[ids -> Apertures] : ids \in SUBSET ApertureIDs},
           current_aperture_id : {None} \cup {Some(id) : id \in ApertureIDs},
           coordinate_parser : {None} \cup {Some(f) : f \in CoordinateFormats}]

State2Default == [is_region |-> FALSE, is_aperture_block |-> FALSE,
                  is_step_and_repeat |-> FALSE, polarity |-> "Dark",
                  apertures |-> EmptyDict, current_aperture_id |-> None,
                  coordinate_parser |-> None]

\* CommandBuffer2(commands): a buffer object holding a list of commands.
CommandBuffer2(commands) == [commands |-> commands]

\* CommandBuffer2.copy(): a new object holding a copy of the command list.
BufferCopy(buf) == CommandBuffer2(buf.commands)

\* CommandBuffer2.add_command: append to the command list.
BufferAdd(buf, c) == [buf EXCEPT !.commands = Append(@, c)]

\* Parser2ContextOptions: every field None, or every buffer field given.
OptionsDefault == [initial_state |-> None,
                   initial_main_command_buffer |-> None,
                   initial_region_command_buffer |-> None,
                   initial_block_command_buffer |-> None]

OptionsCustom == [initial_state |-> None,
                  initial_main_command_buffer |->
                      Some(CommandBuffer2(<< TemplateCommand >>)),
                  initial_region_command_buffer |->
                      Some(CommandBuffer2(<< TemplateCommand >>)),
                  initial_block_command_buffer |->
                      Some(CommandBuffer2(<< TemplateCommand >>))]

Parser2ContextOptions == {OptionsDefault, OptionsCustom}

----------------------------------------------------------------------------
(* History variable: the order in which the open containers were created.  *)

RECURSIVE RemoveLast(_, _)
RemoveLast(seq, k) ==
    IF seq = << >> THEN << >>
    ELSE IF seq[Len(seq)] = k THEN SubSeq(seq, 1, Len(seq) - 1)
    ELSE Append(RemoveLast(SubSeq(seq, 1, Len(seq) - 1), k), seq[Len(seq)])

Opened(seq, k) == Append(seq, k)

Reopened(seq, k) == Append(RemoveLast(seq, k), k)

Closed(seq, k) == RemoveLast(seq, k)

----------------------------------------------------------------------------
\* no object of the other classes has been constructed
NoObjects ==
    /\ meta = None
    /\ formatter = None
    /\ document = None
    /\ loads = << >>
    /\ heap = << >>
    /\ contexts = << >>

\* no visitor has been constructed
NoVisitor ==
    /\ visitor = None
    /\ visited = << >>

\* no Parser has been constructed next to the context
NoParser ==
    /\ tokens = << >>
    /\ parser_options = None
    /\ parser_state = None
    /\ draw_actions = << >>
    /\ next_token = 0
    /\ parser_raised = NoError
    /\ log = << >>
    /\ handle = None
    /\ calls = << >>

----------------------------------------------------------------------------
(* Parser2Context.__init__                                                 *)

Init ==
    /\ options \in Parser2ContextOptions
    /\ state = IF IsNone(options.initial_state) THEN State2Default
               ELSE Unwrap(options.initial_state)
    /\ main_command_buffer =
           IF IsNone(options.initial_main_command_buffer)
           THEN CommandBuffer2(<< >>)
           ELSE Unwrap(options.initial_main_command_buffer)
    /\ region_command_buffer = None
    /\ block_command_buffer_stack = << >>
    /\ step_and_repeat_command_buffer = None
    /\ state_before_step_and_repeat = None
    /\ raised = NoError
    /\ returned = Nothing
    /\ added = 0
    /\ open_order = << >>
    /\ last_op = "__init__"
    /\ captured = None
    /\ argument = None
    /\ current_token = None
    /\ reached_program_stop = FALSE
    /\ reached_optional_stop = FALSE
    /\ reached_end_of_file = FALSE
    /\ NoParser
    /\ NoVisitor
    /\ NoObjects

Returns(v) == raised' = NoError /\ returned' = v

\* an exception leaves the context as it was
Raises(e) ==
    /\ raised' = e
    /\ returned' = Nothing
    /\ UNCHANGED << options, state, main_command_buffer, region_command_buffer,
                    block_command_buffer_stack, step_and_repeat_command_buffer,
                    state_before_step_and_repeat >>

----------------------------------------------------------------------------
(* Block aperture buffers.                                                 *)

push_block_command_buffer ==
    /\ Len(block_command_buffer_stack) < MaxDepth
    /\ block_command_buffer_stack' =
           Append(block_command_buffer_stack,
                  IF IsNone(options.initial_block_command_buffer)
                  THEN CommandBuffer2(<< >>)
                  ELSE BufferCopy(Unwrap(options.initial_block_command_buffer)))
    /\ Returns(Nothing)
    /\ UNCHANGED << options, state, main_command_buffer, region_command_buffer,
                    step_and_repeat_command_buffer,
                    state_before_step_and_repeat >>

\* faulty variant: the stack is popped from the wrong end (list.pop(0))
pop_block_command_buffer_bottom ==
    IF Len(block_command_buffer_stack) = 0
    THEN Raises("ReferencedNotInitializedBlockBufferError")
    ELSE /\ block_command_buffer_stack' = Tail(block_command_buffer_stack)
         /\ Returns(Value(Head(block_command_buffer_stack)))
         /\ UNCHANGED << options, state, main_command_buffer,
                         region_command_buffer, step_and_repeat_command_buffer,
                         state_before_step_and_repeat >>

pop_block_command_buffer ==
    IF Len(block_command_buffer_stack) = 0
    THEN Raises("ReferencedNotInitializedBlockBufferError")
    ELSE /\ block_command_buffer_stack' =
                SubSeq(block_command_buffer_stack, 1,
                       Len(block_command_buffer_stack) - 1)
         /\ Returns(Value(block_command_buffer_stack[
                            Len(block_command_buffer_stack)]))
         /\ UNCHANGED << options, state, main_command_buffer,
                         region_command_buffer, step_and_repeat_command_buffer,
                         state_before_step_and_repeat >>

first_block_command_buffer ==
    IF Len(block_command_buffer_stack) = 0
    THEN Raises("ReferencedNotInitializedBlockBufferError")
    ELSE /\ Returns(Nothing)
         /\ UNCHANGED << options, state, main_command_buffer,
                         region_command_buffer, block_command_buffer_stack,
                         step_and_repeat_command_buffer,
                         state_before_step_and_repeat >>

----------------------------------------------------------------------------
(* Region buffer.                                                          *)

set_region_command_buffer ==
    /\ region_command_buffer' =
           Some(IF IsNone(options.initial_region_command_buffer)
                THEN CommandBuffer2(<< >>)
                ELSE BufferCopy(Unwrap(options.initial_region_command_buffer)))
    /\ Returns(Nothing)
    /\ UNCHANGED << options, state, main_command_buffer,
                    block_command_buffer_stack, step_and_repeat_command_buffer,
                    state_before_step_and_repeat >>

unset_region_command_buffer ==
    /\ region_command_buffer' = None
    /\ Returns(Nothing)
    /\ UNCHANGED << options, state, main_command_buffer,
                    block_command_buffer_stack, step_and_repeat_command_buffer,
                    state_before_step_and_repeat >>

\* faulty variant: the None check is missing, the caller gets None back
get_region_command_buffer_unchecked ==
    /\ Returns(Nothing)
    /\ UNCHANGED << options, state, main_command_buffer, region_command_buffer,
                    block_command_buffer_stack, step_and_repeat_command_buffer,
                    state_before_step_and_repeat >>

get_region_command_buffer ==
    IF IsNone(region_command_buffer)
    THEN Raises("RegionNotInitializedError")
    ELSE /\ Returns(Nothing)
         /\ UNCHANGED << options, state, main_command_buffer,
                         region_command_buffer, block_command_buffer_stack,
                         step_and_repeat_command_buffer,
                         state_before_step_and_repeat >>

----------------------------------------------------------------------------
(* Step-and-repeat buffer and the state snapshot taken at its open.        *)

\* the code builds the buffer from options.initial_region_command_buffer
set_step_and_repeat_command_buffer ==
    /\ step_and_repeat_command_buffer' =
           Some(IF IsNone(options.initial_region_command_buffer)
                THEN CommandBuffer2(<< >>)
                ELSE BufferCopy(Unwrap(options.initial_region_command_buffer)))
    /\ Returns(Nothing)
    /\ UNCHANGED << options, state, main_command_buffer, region_command_buffer,
                    block_command_buffer_stack, state_before_step_and_repeat >>

unset_step_and_repeat_command_buffer ==
    /\ step_and_repeat_command_buffer' = None
    /\ Returns(Nothing)
    /\ UNCHANGED << options, state, main_command_buffer, region_command_buffer,
                    block_command_buffer_stack, state_before_step_and_repeat >>

get_step_and_repeat_command_buffer ==
    IF IsNone(step_and_repeat_command_buffer)
    THEN Raises("StepAndRepeatNotInitializedError")
    ELSE /\ Returns(Nothing)
         /\ UNCHANGED << options, state, main_command_buffer,
                         region_command_buffer, block_command_buffer_stack,
                         step_and_repeat_command_buffer,
                         state_before_step_and_repeat >>

get_state_before_step_and_repeat ==
    IF IsNone(state_before_step_and_repeat)
    THEN Raises("StepAndRepeatNotInitializedError")
    ELSE /\ Returns(Nothing)
         /\ UNCHANGED << options, state, main_command_buffer,
                         region_command_buffer, block_command_buffer_stack,
                         step_and_repeat_command_buffer,
                         state_before_step_and_repeat >>

unset_state_before_step_and_repeat ==
    /\ state_before_step_and_repeat' = None
    /\ Returns(Nothing)
    /\ UNCHANGED << options, state, main_command_buffer, region_command_buffer,
                    block_command_buffer_stack, step_and_repeat_command_buffer >>

\* State2 is immutable: keeping a reference to it keeps its value
set_state_before_step_and_repeat ==
    /\ state_before_step_and_repeat' = Some(state)
    /\ Returns(Nothing)
    /\ UNCHANGED << options, state, main_command_buffer, region_command_buffer,
                    block_command_buffer_stack, step_and_repeat_command_buffer >>

\* faulty variant: the state is reset to a new State2(), not to the snapshot
reset_state_to_default ==
    IF IsNone(state_before_step_and_repeat)
    THEN Raises("StepAndRepeatNotInitializedError")
    ELSE /\ state' = State2Default
         /\ Returns(Nothing)
         /\ UNCHANGED << options, main_command_buffer, region_command_buffer,
                         block_command_buffer_stack,
                         step_and_repeat_command_buffer,
                         state_before_step_and_repeat >>

\* set_state(get_state_before_step_and_repeat())
reset_state_to_pre_step_and_repeat ==
    IF IsNone(state_before_step_and_repeat)
    THEN Raises("StepAndRepeatNotInitializedError")
    ELSE /\ state' = Unwrap(state_before_step_and_repeat)
         /\ Returns(Nothing)
         /\ UNCHANGED << options, main_command_buffer, region_command_buffer,
                         block_command_buffer_stack,
                         step_and_repeat_command_buffer,
                         state_before_step_and_repeat >>

----------------------------------------------------------------------------
(* State setters: set_state(get_state().set_<field>(value)).               *)

set_state(new_state) ==
    /\ state' = new_state
    /\ Returns(Nothing)
    /\ UNCHANGED << options, main_command_buffer, region_command_buffer,
                    block_command_buffer_stack, step_and_repeat_command_buffer,
                    state_before_step_and_repeat >>

set_polarity(polarity) == set_state([state EXCEPT !.polarity = polarity])

set_is_region(is_region) == set_state([state EXCEPT !.is_region = is_region])

set_is_aperture_block(is_aperture_block) ==
    set_state([state EXCEPT !.is_aperture_block = is_aperture_block])

set_is_step_and_repeat(is_step_and_repeat) ==
    set_state([state EXCEPT !.is_step_and_repeat = is_step_and_repeat])

----------------------------------------------------------------------------
(* add_command: the buffer that receives a new command.                    *)

\* self.get_region_command_buffer().add_command(__command)
AddToRegion(c) ==
    IF IsNone(region_command_buffer)
    THEN Raises("RegionNotInitializedError")
    ELSE /\ region_command_buffer' =
                Some(BufferAdd(Unwrap(region_command_buffer), c))
         /\ Returns(Nothing)
         /\ UNCHANGED << options, state, main_command_buffer,
                         block_command_buffer_stack,
                         step_and_repeat_command_buffer,
                         state_before_step_and_repeat >>

\* self.first_block_command_buffer().add_command(__command)
AddToBlock(c) ==
    IF Len(block_command_buffer_stack) = 0
    THEN Raises("ReferencedNotInitializedBlockBufferError")
    ELSE /\ block_command_buffer_stack' =
                [block_command_buffer_stack
                     EXCEPT ![Len(block_command_buffer_stack)] =
                                BufferAdd(@, c)]
         /\ Returns(Nothing)
         /\ UNCHANGED << options, state, main_command_buffer,
                         region_command_buffer, step_and_repeat_command_buffer,
                         state_before_step_and_repeat >>

\* self.get_step_and_repeat_command_buffer().add_command(__command)
AddToStepAndRepeat(c) ==
    IF IsNone(step_and_repeat_command_buffer)
    THEN Raises("StepAndRepeatNotInitializedError")
    ELSE /\ step_and_repeat_command_buffer' =
                Some(BufferAdd(Unwrap(step_and_repeat_command_buffer), c))
         /\ Returns(Nothing)
         /\ UNCHANGED << options, state, main_command_buffer,
                         region_command_buffer, block_command_buffer_stack,
                         state_before_step_and_repeat >>

\* self.main_command_buffer.add_command(__command)
AddToMain(c) ==
    /\ main_command_buffer' = BufferAdd(main_command_buffer, c)
    /\ Returns(Nothing)
    /\ UNCHANGED << options, state, region_command_buffer,
                    block_command_buffer_stack, step_and_repeat_command_buffer,
                    state_before_step_and_repeat >>

\* faulty variant: the aperture-block flag is tested before the region flag
add_command_block_before_region(c) ==
    IF state.is_aperture_block THEN AddToBlock(c)
    ELSE IF state.is_region THEN AddToRegion(c)
    ELSE IF state.is_step_and_repeat THEN AddToStepAndRepeat(c)
    ELSE AddToMain(c)

\* faulty variant: the step-and-repeat flag is tested before the aperture-block flag
add_command_sr_before_block(c) ==
    IF state.is_region THEN AddToRegion(c)
    ELSE IF state.is_step_and_repeat THEN AddToStepAndRepeat(c)
    ELSE IF state.is_aperture_block THEN AddToBlock(c)
    ELSE AddToMain(c)

add_command(c) ==
    IF state.is_region THEN AddToRegion(c)
    ELSE IF state.is_aperture_block THEN AddToBlock(c)
    ELSE IF state.is_step_and_repeat THEN AddToStepAndRepeat(c)
    ELSE AddToMain(c)

----------------------------------------------------------------------------
(* Specification Spec: the operations of one Parser2Context on its         *)
(* buffers, flags and snapshot, called in any order.                       *)

Next ==
    \/ UNCHANGED << added, open_order, last_op, captured, parser_vars, argument, stop_vars, visitor_vars, object_vars >> /\ push_block_command_buffer
    \/ UNCHANGED << added, open_order, last_op, captured, parser_vars, argument, stop_vars, visitor_vars, object_vars >> /\ pop_block_command_buffer
    \/ UNCHANGED << added, open_order, last_op, captured, parser_vars, argument, stop_vars, visitor_vars, object_vars >> /\ first_block_command_buffer
    \/ UNCHANGED << added, open_order, last_op, captured, parser_vars, argument, stop_vars, visitor_vars, object_vars >> /\ set_region_command_buffer
    \/ UNCHANGED << added, open_order, last_op, captured, parser_vars, argument, stop_vars, visitor_vars, object_vars >> /\ unset_region_command_buffer
    \/ UNCHANGED << added, open_order, last_op, captured, parser_vars, argument, stop_vars, visitor_vars, object_vars >> /\ get_region_command_buffer
    \/ UNCHANGED << added, open_order, last_op, captured, parser_vars, argument, stop_vars, visitor_vars, object_vars >> /\ set_step_and_repeat_command_buffer
    \/ UNCHANGED << added, open_order, last_op, captured, parser_vars, argument, stop_vars, visitor_vars, object_vars >> /\ unset_step_and_repeat_command_buffer
    \/ UNCHANGED << added, open_order, last_op, captured, parser_vars, argument, stop_vars, visitor_vars, object_vars >> /\ get_step_and_repeat_command_buffer
    \/ UNCHANGED << added, open_order, last_op, captured, parser_vars, argument, stop_vars, visitor_vars, object_vars >> /\ get_state_before_step_and_repeat
    \/ UNCHANGED << added, open_order, last_op, captured, parser_vars, argument, stop_vars, visitor_vars, object_vars >> /\ unset_state_before_step_and_repeat
    \/ UNCHANGED << added, open_order, last_op, captured, parser_vars, argument, stop_vars, visitor_vars, object_vars >> /\ set_state_before_step_and_repeat
    \/ UNCHANGED << added, open_order, last_op, captured, parser_vars, argument, stop_vars, visitor_vars, object_vars >> /\ \E b \in BOOLEAN : set_is_region(b)
    \/ UNCHANGED << added, open_order, last_op, captured, parser_vars, argument, stop_vars, visitor_vars, object_vars >>
           /\ \E b \in BOOLEAN : set_is_aperture_block(b)
    \/ UNCHANGED << added, open_order, last_op, captured, parser_vars, argument, stop_vars, visitor_vars, object_vars >>
           /\ \E b \in BOOLEAN : set_is_step_and_repeat(b)
    \/ \E c \in Commands :
           /\ c = added + 1 /\ add_command(c) /\ added' = c
           /\ UNCHANGED << open_order, last_op, captured, parser_vars, argument, stop_vars, visitor_vars, object_vars >>

Spec == Init /\ [][Next]_vars

----------------------------------------------------------------------------
(* The buffers of the context, by name.                                    *)

BufferNames ==
    {<< "main", 0 >>, << "region", 0 >>, << "step_and_repeat", 0 >>}
        \cup {<< "block", i >> : i \in 1 .. MaxDepth + 1}

\* the command list of each buffer, None for a buffer that does not exist
BufferView ==
    [n \in BufferNames |->
        IF n = << "main", 0 >> THEN Some(main_command_buffer.commands)
        ELSE IF n = << "region", 0 >>
        THEN IF IsNone(region_command_buffer) THEN None
             ELSE Some(Unwrap(region_command_buffer).commands)
        ELSE IF n = << "step_and_repeat", 0 >>
        THEN IF IsNone(step_and_repeat_command_buffer) THEN None
             ELSE Some(Unwrap(step_and_repeat_command_buffer).commands)
        ELSE IF n[2] <= Len(block_command_buffer_stack)
        THEN Some(block_command_buffer_stack[n[2]].commands)
        ELSE None]

\* the buffer the precedence region > block > step-and-repeat > main names
SelectedByPrecedence ==
    CASE state.is_region -> << "region", 0 >>
      [] ~state.is_region /\ state.is_aperture_block ->
             << "block", Len(block_command_buffer_stack) >>
      [] ~state.is_region /\ ~state.is_aperture_block
             /\ state.is_step_and_repeat -> << "step_and_repeat", 0 >>
      [] OTHER -> << "main", 0 >>

\* a step of add_command: the only operation that counts the commands
IsAddCommandStep == added' = added + 1

\* the view after the command c was appended to the buffer n and to no other
AppendedTo(n, c) ==
    /\ n \in BufferNames
    /\ ~IsNone(BufferView[n])
    /\ BufferView' = [BufferView EXCEPT ![n] = Some(Append(Unwrap(@), c))]

----------------------------------------------------------------------------
(* C1: add_command appends the command to exactly one buffer, the one      *)
(* selected by the precedence region flag > aperture-block flag (top of    *)
(* the block stack) > step-and-repeat flag > main, and leaves the contents *)
(* of every other buffer unchanged; a call that raises changes no buffer.  *)
C1_AddCommandPrecedence ==
    [][IsAddCommandStep =>
          IF raised' = NoError
          THEN AppendedTo(SelectedByPrecedence, added')
          ELSE BufferView' = BufferView]_vars

\* a command went to the region buffer while a block and a step-and-repeat
\* were open and flagged too
C1_Witness ==
    /\ raised = NoError
    /\ added >= 1
    /\ state.is_region /\ state.is_aperture_block /\ state.is_step_and_repeat
    /\ Len(block_command_buffer_stack) >= 1
    /\ ~IsNone(step_and_repeat_command_buffer)
    /\ ~IsNone(region_command_buffer)
    /\ Unwrap(region_command_buffer).commands # << >>
    /\ Unwrap(region_command_buffer).commands[
           Len(Unwrap(region_command_buffer).commands)] = added

----------------------------------------------------------------------------
\* the buffers and the state fields of the context
ContextData == << state, main_command_buffer, region_command_buffer,
                  block_command_buffer_stack, step_and_repeat_command_buffer,
                  state_before_step_and_repeat >>

(* C3: a close with no matching open is an error.  Popping or reading the  *)
(* block buffer stack when it is empty raises                              *)
(* ReferencedNotInitializedBlockBufferError, reading the region buffer     *)
(* when there is none raises RegionNotInitializedError, reading the        *)
(* step-and-repeat buffer or the pre-step-and-repeat state when there is   *)
(* none raises StepAndRepeatNotInitializedError; no buffer and no state    *)
(* field changes in any of these calls.                                    *)
C3_CloseWithoutOpenRaises ==
    [][/\ (Len(block_command_buffer_stack) = 0
              /\ (pop_block_command_buffer \/ first_block_command_buffer))
          => (raised' = "ReferencedNotInitializedBlockBufferError"
                 /\ ContextData' = ContextData)
       /\ (IsNone(region_command_buffer) /\ get_region_command_buffer)
          => (raised' = "RegionNotInitializedError"
                 /\ ContextData' = ContextData)
       /\ (IsNone(step_and_repeat_command_buffer)
              /\ get_step_and_repeat_command_buffer)
          => (raised' = "StepAndRepeatNotInitializedError"
                 /\ ContextData' = ContextData)
       /\ (IsNone(state_before_step_and_repeat)
              /\ get_state_before_step_and_repeat)
          => (raised' = "StepAndRepeatNotInitializedError"
                 /\ ContextData' = ContextData)]_vars

\* the region buffer was read with no region open (the region flag is not
\* set, so the error does not come from add_command) while other buffers
\* existed and held commands
C3_Witness ==
    /\ raised = "RegionNotInitializedError"
    /\ ~state.is_region
    /\ IsNone(region_command_buffer)
    /\ Len(block_command_buffer_stack) >= 1
    /\ added >= 1

----------------------------------------------------------------------------
\* the commands a pushed block buffer is created with
CreatedBlockCommands ==
    IF IsNone(options.initial_block_command_buffer) THEN << >>
    ELSE Unwrap(options.initial_block_command_buffer).commands

(* C4: block aperture buffers obey a stack discipline.  A push puts a new  *)
(* buffer on top and leaves the buffers below as they are; a pop of a      *)
(* non-empty stack returns the top buffer (the most recent push not yet    *)
(* popped) and removes it, a pop of the empty stack changes nothing; no    *)
(* other operation changes the depth or a buffer below the top, and the    *)
(* top buffer changes only by add_command appending to it.  So the depth   *)
(* is the number of pushes minus the number of successful pops and a       *)
(* popped buffer holds, after what it was created with, exactly the        *)
(* commands added while it was the top.                                    *)
C4_BlockStackDiscipline ==
    [][LET stack == block_command_buffer_stack
           depth == Len(block_command_buffer_stack)
       IN  /\ push_block_command_buffer
              => /\ Len(stack') = depth + 1
                 /\ SubSeq(stack', 1, depth) = stack
                 /\ stack'[depth + 1].commands = CreatedBlockCommands
           /\ (pop_block_command_buffer /\ depth > 0)
              => /\ raised' = NoError
                 /\ returned' = Value(stack[depth])
                 /\ stack' = SubSeq(stack, 1, depth - 1)
           /\ (pop_block_command_buffer /\ depth = 0)
              => /\ raised' = "ReferencedNotInitializedBlockBufferError"
                 /\ stack' = stack
           /\ (~push_block_command_buffer /\ ~pop_block_command_buffer)
              => /\ Len(stack') = depth
                 /\ \A i \in 1 .. depth - 1 : stack'[i] = stack[i]
                 /\ depth > 0
                    => \/ stack'[depth] = stack[depth]
                       \/ /\ IsAddCommandStep
                          /\ stack'[depth].commands =
                                 Append(stack[depth].commands, added')]_vars

\* a pop returned the upper of two buffers, holding a command added while
\* it was the top; the lower buffer is still on the stack
C4_Witness ==
    /\ raised = NoError
    /\ returned.kind = "value"
    /\ returned.value.commands = Append(CreatedBlockCommands, added)
    /\ added >= 1
    /\ Len(block_command_buffer_stack) = 1
    /\ block_command_buffer_stack[1].commands = CreatedBlockCommands

----------------------------------------------------------------------------
(* Specification SpecNest: containers are opened and closed in any order,  *)
(* and open_order records the order in which the containers that exist     *)
(* were created (a buffer is created at an open and dropped at a close).   *)

NextNest ==
    \/ /\ push_block_command_buffer
       /\ open_order' = Opened(open_order, "block")
       /\ UNCHANGED << added, last_op, captured, parser_vars, argument, stop_vars, visitor_vars, object_vars >>
    \/ /\ pop_block_command_buffer
       /\ open_order' = IF raised' = NoError THEN Closed(open_order, "block")
                        ELSE open_order
       /\ UNCHANGED << added, last_op, captured, parser_vars, argument, stop_vars, visitor_vars, object_vars >>
    \/ /\ set_region_command_buffer
       /\ open_order' = Reopened(open_order, "region")
       /\ UNCHANGED << added, last_op, captured, parser_vars, argument, stop_vars, visitor_vars, object_vars >>
    \/ /\ unset_region_command_buffer
       /\ open_order' = Closed(open_order, "region")
       /\ UNCHANGED << added, last_op, captured, parser_vars, argument, stop_vars, visitor_vars, object_vars >>
    \/ /\ set_step_and_repeat_command_buffer
       /\ open_order' = Reopened(open_order, "step_and_repeat")
       /\ UNCHANGED << added, last_op, captured, parser_vars, argument, stop_vars, visitor_vars, object_vars >>
    \/ /\ unset_step_and_repeat_command_buffer
       /\ open_order' = Closed(open_order, "step_and_repeat")
       /\ UNCHANGED << added, last_op, captured, parser_vars, argument, stop_vars, visitor_vars, object_vars >>
    \/ UNCHANGED << added, open_order, last_op, captured, parser_vars, argument, stop_vars, visitor_vars, object_vars >> /\ \E b \in BOOLEAN : set_is_region(b)
    \/ UNCHANGED << added, open_order, last_op, captured, parser_vars, argument, stop_vars, visitor_vars, object_vars >>
           /\ \E b \in BOOLEAN : set_is_aperture_block(b)
    \/ UNCHANGED << added, open_order, last_op, captured, parser_vars, argument, stop_vars, visitor_vars, object_vars >>
           /\ \E b \in BOOLEAN : set_is_step_and_repeat(b)
    \/ \E c \in Commands :
           /\ c = added + 1 /\ add_command(c) /\ added' = c
           /\ UNCHANGED << open_order, last_op, captured, parser_vars, argument, stop_vars, visitor_vars, object_vars >>

SpecNest == Init /\ [][NextNest]_vars

\* every container that is open has its flag set, and no other flag is set
FlagsMatchBuffers ==
    /\ state.is_region <=> ~IsNone(region_command_buffer)
    /\ state.is_aperture_block <=> Len(block_command_buffer_stack) > 0
    /\ state.is_step_and_repeat <=> ~IsNone(step_and_repeat_command_buffer)

\* the buffer of the container opened last and not yet closed
InnermostOpen ==
    IF open_order = << >> THEN << "main", 0 >>
    ELSE IF open_order[Len(open_order)] = "block"
    THEN << "block", Len(block_command_buffer_stack) >>
    ELSE << open_order[Len(open_order)], 0 >>

NestingRank(k) ==
    CASE k = "step_and_repeat" -> 1
      [] k = "block" -> 2
      [] k = "region" -> 3

\* step-and-repeat outermost, blocks inside it, a region innermost
NestedInFormatOrder ==
    \A i, j \in 1 .. Len(open_order) :
        i < j => NestingRank(open_order[i]) <= NestingRank(open_order[j])

(* C2, as claimed: after any sequence of region, aperture-block and        *)
(* step-and-repeat opens and closes, a newly added command is received by  *)
(* the buffer of the innermost container currently open, or by the main    *)
(* buffer when no container is open.                                       *)
C2_InnermostOpenReceives ==
    [][(IsAddCommandStep /\ FlagsMatchBuffers)
          => (raised' = NoError /\ AppendedTo(InnermostOpen, added'))]_vars

(* C2, amended: the receiving buffer is the one the fixed precedence       *)
(* region > block > step-and-repeat > main selects, whatever the order of  *)
(* the opens; it is the innermost open container when the containers were  *)
(* opened in the nesting order step-and-repeat, then blocks, then region.  *)
C2_InnermostWhenNestedInOrder ==
    [][(IsAddCommandStep /\ FlagsMatchBuffers)
          => /\ raised' = NoError
             /\ AppendedTo(SelectedByPrecedence, added')
             /\ NestedInFormatOrder
                => AppendedTo(InnermostOpen, added')]_vars

\* a command went to the top block buffer, the innermost container, with a
\* step-and-repeat open around two nested blocks
C2_Witness ==
    /\ open_order = << "step_and_repeat", "block", "block" >>
    /\ FlagsMatchBuffers
    /\ raised = NoError
    /\ added >= 1
    /\ block_command_buffer_stack[2].commands =
           Append(CreatedBlockCommands, added)

----------------------------------------------------------------------------
(* Specification SpecSR: the step-and-repeat operations of the context and *)
(* the state setters, called in any order.  last_op names the operation    *)
(* of the last step; captured is the value the state had when              *)
(* set_state_before_step_and_repeat was last called (None after an unset). *)

NextSR ==
    \/ /\ set_state_before_step_and_repeat
       /\ last_op' = "set_state_before_step_and_repeat"
       /\ captured' = Some(state)
       /\ UNCHANGED << added, open_order, parser_vars, argument, stop_vars, visitor_vars, object_vars >>
    \/ /\ unset_state_before_step_and_repeat
       /\ last_op' = "unset_state_before_step_and_repeat"
       /\ captured' = None
       /\ UNCHANGED << added, open_order, parser_vars, argument, stop_vars, visitor_vars, object_vars >>
    \/ /\ get_state_before_step_and_repeat
       /\ last_op' = "get_state_before_step_and_repeat"
       /\ UNCHANGED << added, open_order, captured, parser_vars, argument, stop_vars, visitor_vars, object_vars >>
    \/ /\ reset_state_to_pre_step_and_repeat
       /\ last_op' = "reset_state_to_pre_step_and_repeat"
       /\ UNCHANGED << added, open_order, captured, parser_vars, argument, stop_vars, visitor_vars, object_vars >>
    \/ /\ set_step_and_repeat_command_buffer
       /\ last_op' = "set_step_and_repeat_command_buffer"
       /\ UNCHANGED << added, open_order, captured, parser_vars, argument, stop_vars, visitor_vars, object_vars >>
    \/ /\ unset_step_and_repeat_command_buffer
       /\ last_op' = "unset_step_and_repeat_command_buffer"
       /\ UNCHANGED << added, open_order, captured, parser_vars, argument, stop_vars, visitor_vars, object_vars >>
    \/ /\ get_step_and_repeat_command_buffer
       /\ last_op' = "get_step_and_repeat_command_buffer"
       /\ UNCHANGED << added, open_order, captured, parser_vars, argument, stop_vars, visitor_vars, object_vars >>
    \/ /\ \E p \in {"Dark", "Clear"} : set_polarity(p)
       /\ last_op' = "set_polarity"
       /\ UNCHANGED << added, open_order, captured, parser_vars, argument, stop_vars, visitor_vars, object_vars >>
    \/ /\ \E b \in BOOLEAN : set_is_step_and_repeat(b)
       /\ last_op' = "set_is_step_and_repeat"
       /\ UNCHANGED << added, open_order, captured, parser_vars, argument, stop_vars, visitor_vars, object_vars >>
    \/ /\ \E b \in BOOLEAN : set_is_region(b)
       /\ last_op' = "set_is_region"
       /\ UNCHANGED << added, open_order, captured, parser_vars, argument, stop_vars, visitor_vars, object_vars >>
    \/ /\ \E c \in Commands : c = added + 1 /\ add_command(c) /\ added' = c
       /\ last_op' = "add_command"
       /\ UNCHANGED << open_order, captured, parser_vars, argument, stop_vars, visitor_vars, object_vars >>

SpecSR == Init /\ [][NextSR]_vars

(* C5, as claimed: opening a second step-and-repeat while one is active    *)
(* always raises an error and never silently nests; the step-and-repeat    *)
(* buffer that is already open and the captured pre-step-and-repeat state  *)
(* are not replaced or discarded.                                          *)
C5_SecondOpenRaises ==
    [][/\ (last_op' = "set_step_and_repeat_command_buffer"
              /\ ~IsNone(step_and_repeat_command_buffer))
          => /\ raised' # NoError
             /\ step_and_repeat_command_buffer' = step_and_repeat_command_buffer
       /\ (last_op' = "set_state_before_step_and_repeat"
              /\ ~IsNone(state_before_step_and_repeat))
          => /\ raised' # NoError
             /\ state_before_step_and_repeat' = state_before_step_and_repeat
      ]_vars

(* C6: step-and-repeat restores the pre-step-and-repeat state.  After      *)
(* set_state_before_step_and_repeat, whatever state setters run            *)
(* afterwards, reset_state_to_pre_step_and_repeat makes the state equal to *)
(* the state captured; with no snapshot captured it raises                 *)
(* StepAndRepeatNotInitializedError and leaves the state as it is.         *)
C6_ResetRestoresSnapshot ==
    [][last_op' = "reset_state_to_pre_step_and_repeat"
          => IF IsNone(captured)
             THEN /\ raised' = "StepAndRepeatNotInitializedError"
                  /\ state' = state
             ELSE /\ raised' = NoError
                  /\ state' = Unwrap(captured)]_vars

\* a reset brought back a snapshot that differs from a new State2(), after
\* commands were added under a step-and-repeat flag the snapshot lacks
C6_Witness ==
    /\ last_op = "reset_state_to_pre_step_and_repeat"
    /\ raised = NoError
    /\ ~IsNone(captured)
    /\ state = Unwrap(captured)
    /\ state.polarity = "Clear"
    /\ ~state.is_step_and_repeat
    /\ ~IsNone(step_and_repeat_command_buffer)
    /\ added >= 1
    /\ Unwrap(step_and_repeat_command_buffer).commands # << >>
    /\ Unwrap(step_and_repeat_command_buffer).commands[
           Len(Unwrap(step_and_repeat_command_buffer).commands)] = added

----------------------------------------------------------------------------
(* Part II.  Values of the version 1 interpreter.                          *)

\* tokens on the stack handed to the Parser
MaxTokens == 2

\* Offset.NULL
OffsetNULL == 0

\* the outcome of a call: a returned value, or a raised exception
Ok(v) == [ok |-> TRUE, value |-> v]

Err(e) == [ok |-> FALSE, error |-> e]

\* the exception classes derived from ParserError
ParserError ==
    {"ApertureNotSelectedError", "CoordinateFormatNotSetError",
     "UnitNotSetError", "OnUpdateDrawingStateError"}

\* Vector2D(x, y)
Vector2D(x, y) == [x |-> x, y |-> y]

\* Coordinate.new(coordinate_type, offset): an absent offset gives the
\* MISSING_ variant of the type, a present one keeps its raw digits
CoordinateNew(coordinate_type, offset) ==
    IF IsNone(offset)
    THEN [coordinate_type |-> "MISSING_" \o coordinate_type, offset |-> 0]
    ELSE [coordinate_type |-> coordinate_type, offset |-> Unwrap(offset)]

\* CoordinateParser.parse: the raw digits read with the format's number of
\* decimal places, as a decimal number counted in thousandths
CoordinateParserParse(parser, coordinate) ==
    CASE parser.decimal = 1 -> coordinate.offset * 100
      [] parser.decimal = 2 -> coordinate.offset * 10
      [] parser.decimal = 3 -> coordinate.offset

\* Offset.new(value, unit): a length, counted in ten-thousandths of a
\* millimeter (an inch is 25.4 mm)
OffsetNew(value, unit) ==
    IF unit = "Millimeters" THEN value * 10 ELSE value * 254

\* Polarity.to_region_variant()
to_region_variant(polarity) ==
    IF polarity = "Dark" THEN "DarkRegion" ELSE "ClearRegion"

\* the aperture handles a state can select; the backend's private handle
\* of an aperture gives its drawing target and its line width
ApertureHandles == {[aperture_id |-> "D10", line_width |-> 40]}

CoordinateParsers == {[decimal |-> 2]}

\* State(...): the fields of a State that D01 reads.
\* region_boundary_points and is_multi_quadrant are read by D01Draw but are
\* not declared by the State class of parser/state.py: None stands for a
\* State without the attribute, on which reading it raises AttributeError.
State(current_position, draw_units, coordinate_parser, current_aperture, draw_mode, polarity, is_region, region_boundary_points, is_multi_quadrant) ==
    [current_position |-> current_position,
     draw_units |-> draw_units,
     coordinate_parser |-> coordinate_parser,
     current_aperture |-> current_aperture,
     draw_mode |-> draw_mode,
     polarity |-> polarity,
     is_region |-> is_region,
     region_boundary_points |-> region_boundary_points,
     is_multi_quadrant |-> is_multi_quadrant]

\* State(): the defaults of the class
StateDefault ==
    State(Vector2D(OffsetNULL, OffsetNULL), None, None, None, "Linear",
          "Dark", FALSE, None, None)

\* the State objects a caller passes as ParserOptions.initial_state
InitialStates ==
    {State(Vector2D(OffsetNULL, OffsetNULL), draw_units, coordinate_parser,
           current_aperture, draw_mode, polarity, is_region,
           IF region_fields THEN Some(<< >>) ELSE None,
           IF region_fields THEN Some(FALSE) ELSE None) :
        draw_units \in {None, Some("Millimeters")},
        coordinate_parser \in {None} \cup {Some(p) : p \in CoordinateParsers},
        current_aperture \in {None} \cup {Some(a) : a \in ApertureHandles},
        draw_mode \in {"Linear", "ClockwiseCircular",
                       "CounterclockwiseCircular"},
        polarity \in {"Dark", "Clear"},
        is_region \in BOOLEAN,
        region_fields \in BOOLEAN}

ParserOnErrorAction == {"Ignore", "Warn", "Raise"}

\* ParserOptions(backend, initial_state, on_update_drawing_state_error);
\* "Callback" is a callable given in place of a ParserOnErrorAction
ParserOptions ==
    [backend : [options : [draw_region_outlines : BOOLEAN]],
     initial_state : {None} \cup {Some(s) : s \in InitialStates},
     on_update_drawing_state_error : ParserOnErrorAction \cup {"Callback"}]

\* D01Draw.from_tokens(x=..., y=..., i=..., j=...)
D01Draw_from_tokens(x, y, i, j) ==
    [x |-> CoordinateNew("X", x), y |-> CoordinateNew("Y", y),
     i |-> CoordinateNew("I", i), j |-> CoordinateNew("J", j)]

\* the D01 commands of the input
D01Tokens ==
    {D01Draw_from_tokens(None, None, None, None),
     D01Draw_from_tokens(Some(150), Some(25), None, None),
     D01Draw_from_tokens(Some(150), None, Some(10), Some(5)),
     D01Draw_from_tokens(None, Some(75), None, Some(10))}

TokenStack ==
    UNION {[1 .. n -> D01Tokens] : n \in 0 .. MaxTokens}

----------------------------------------------------------------------------
(* State: the getters and the resolution of a coordinate.                  *)

get_units(s) ==
    IF IsNone(s.draw_units) THEN Err("UnitNotSetError")
    ELSE Ok(Unwrap(s.draw_units))

get_coordinate_parser(s) ==
    IF IsNone(s.coordinate_parser) THEN Err("CoordinateFormatNotSetError")
    ELSE Ok(Unwrap(s.coordinate_parser))

get_current_aperture(s) ==
    IF IsNone(s.current_aperture) THEN Err("ApertureNotSelectedError")
    ELSE Ok(Unwrap(s.current_aperture))

\* faulty variant: the coordinate format is asked for before the missing
\* axes are looked at
parse_coordinate_format_first(s, coordinate) ==
    IF ~get_coordinate_parser(s).ok THEN get_coordinate_parser(s)
    ELSE IF coordinate.coordinate_type = "MISSING_X"
    THEN Ok(s.current_position.x)
    ELSE IF coordinate.coordinate_type = "MISSING_Y"
    THEN Ok(s.current_position.y)
    ELSE IF coordinate.coordinate_type = "MISSING_I" THEN Ok(OffsetNULL)
    ELSE IF coordinate.coordinate_type = "MISSING_J" THEN Ok(OffsetNULL)
    ELSE IF ~get_units(s).ok THEN get_units(s)
    ELSE Ok(OffsetNew(CoordinateParserParse(get_coordinate_parser(s).value,
                                            coordinate),
                      get_units(s).value))

\* faulty variant: the unit is asked for before the coordinate format
parse_coordinate_units_first(s, coordinate) ==
    IF coordinate.coordinate_type = "MISSING_X" THEN Ok(s.current_position.x)
    ELSE IF coordinate.coordinate_type = "MISSING_Y"
    THEN Ok(s.current_position.y)
    ELSE IF coordinate.coordinate_type = "MISSING_I" THEN Ok(OffsetNULL)
    ELSE IF coordinate.coordinate_type = "MISSING_J" THEN Ok(OffsetNULL)
    ELSE IF ~get_units(s).ok THEN get_units(s)
    ELSE IF ~get_coordinate_parser(s).ok THEN get_coordinate_parser(s)
    ELSE Ok(OffsetNew(CoordinateParserParse(get_coordinate_parser(s).value,
                                            coordinate),
                      get_units(s).value))

parse_coordinate(s, coordinate) ==
    IF coordinate.coordinate_type = "MISSING_X" THEN Ok(s.current_position.x)
    ELSE IF coordinate.coordinate_type = "MISSING_Y"
    THEN Ok(s.current_position.y)
    ELSE IF coordinate.coordinate_type = "MISSING_I" THEN Ok(OffsetNULL)
    ELSE IF coordinate.coordinate_type = "MISSING_J" THEN Ok(OffsetNULL)
    ELSE IF ~get_coordinate_parser(s).ok THEN get_coordinate_parser(s)
    ELSE IF ~get_units(s).ok THEN get_units(s)
    ELSE Ok(OffsetNew(CoordinateParserParse(get_coordinate_parser(s).value,
                                            coordinate),
                      get_units(s).value))

----------------------------------------------------------------------------
(* The draw commands of the backend.                                       *)

DrawPaste(polarity, center_position, other) ==
    [kind |-> "paste", polarity |-> polarity,
     center_position |-> center_position, other |-> other]

DrawVectorLine(polarity, start_position, end_position, width) ==
    [kind |-> "vector_line", polarity |-> polarity,
     start_position |-> start_position, end_position |-> end_position,
     width |-> width]

DrawArc(polarity, start_position, dx_dy_center, end_position, width, is_clockwise, is_multi_quadrant) ==
    [kind |-> "arc", polarity |-> polarity,
     start_position |-> start_position, dx_dy_center |-> dx_dy_center,
     end_position |-> end_position, width |-> width,
     is_clockwise |-> is_clockwise, is_multi_quadrant |-> is_multi_quadrant]

\* DrawArc.calculate_arc_points(): the points along the arc, kept as the
\* arc they are computed from
calculate_arc_points(arc) == << arc >>

----------------------------------------------------------------------------
(* D01Draw.                                                                *)

\* faulty variant: the line is drawn with no width
D01Draw_create_draw_commands_thin(self, s, backend, end_position, start_position, polarity) ==
    LET current_aperture == get_current_aperture(s)
    IN  IF ~current_aperture.ok THEN current_aperture
        ELSE Ok(<< DrawPaste(polarity, start_position,
                             current_aperture.value.aperture_id),
                   DrawVectorLine(polarity, start_position, end_position,
                                  OffsetNULL),
                   DrawPaste(polarity, end_position,
                             current_aperture.value.aperture_id) >>)

\* faulty variant: with no aperture selected a line of no width is drawn
D01Draw_create_draw_commands_unselected(self, s, backend, end_position, start_position, polarity) ==
    IF IsNone(s.current_aperture)
    THEN Ok(<< DrawVectorLine(polarity, start_position, end_position,
                              OffsetNULL) >>)
    ELSE Ok(<< DrawPaste(polarity, start_position,
                         Unwrap(s.current_aperture).aperture_id),
               DrawVectorLine(polarity, start_position, end_position,
                              Unwrap(s.current_aperture).line_width),
               DrawPaste(polarity, end_position,
                         Unwrap(s.current_aperture).aperture_id) >>)

\* the generator, run to its end by draw_commands.extend(...)
D01Draw_create_draw_commands(self, s, backend, end_position, start_position, polarity) ==
    LET current_aperture == get_current_aperture(s)
        paste(center_position) ==
            DrawPaste(polarity, center_position,
                      current_aperture.value.aperture_id)
        drawn == ~s.is_region \/ backend.options.draw_region_outlines
        i == parse_coordinate(s, self.i)
        j == parse_coordinate(s, self.j)
    IN  IF ~current_aperture.ok THEN current_aperture
        ELSE IF s.draw_mode = "Linear"
        THEN Ok(<< paste(start_position) >>
                \o (IF drawn
                    THEN << DrawVectorLine(polarity, start_position,
                                           end_position,
                                           current_aperture.value.line_width) >>
                    ELSE << >>)
                \o << paste(end_position) >>)
        ELSE IF s.draw_mode \in {"ClockwiseCircular",
                                 "CounterclockwiseCircular"}
        THEN IF ~i.ok THEN i
             ELSE IF ~j.ok THEN j
             ELSE IF ~drawn
             THEN Ok(<< paste(start_position), paste(end_position) >>)
             ELSE IF IsNone(s.is_multi_quadrant) THEN Err("AttributeError")
             ELSE Ok(<< paste(start_position),
                        DrawArc(polarity, start_position,
                                Vector2D(i.value, j.value), end_position,
                                current_aperture.value.line_width,
                                s.draw_mode = "ClockwiseCircular",
                                Unwrap(s.is_multi_quadrant)),
                        paste(end_position) >>)
        ELSE Err("NotImplementedError")

\* returns the list state.region_boundary_points holds afterwards
D01Draw_create_region_points(self, s, backend, end_position, start_position, polarity) ==
    LET i == parse_coordinate(s, self.i)
        j == parse_coordinate(s, self.j)
    IN  IF s.draw_mode = "Linear"
        THEN IF IsNone(s.region_boundary_points) THEN Err("AttributeError")
             ELSE Ok(Unwrap(s.region_boundary_points)
                         \o << start_position, end_position >>)
        ELSE IF s.draw_mode \in {"ClockwiseCircular",
                                 "CounterclockwiseCircular"}
        THEN IF ~i.ok THEN i
             ELSE IF ~j.ok THEN j
             ELSE IF IsNone(s.region_boundary_points)
             THEN Err("AttributeError")
             ELSE IF IsNone(s.is_multi_quadrant) THEN Err("AttributeError")
             ELSE Ok(Unwrap(s.region_boundary_points)
                         \o calculate_arc_points(
                                DrawArc(polarity, start_position,
                                        Vector2D(i.value, j.value),
                                        end_position, OffsetNULL,
                                        s.draw_mode = "ClockwiseCircular",
                                        Unwrap(s.is_multi_quadrant))))
        ELSE Err("NotImplementedError")

\* faulty variant: inside a region the current position is not moved
D01Draw_update_drawing_state_region_stays(self, s, backend) ==
    LET x == parse_coordinate(s, self.x)
        y == parse_coordinate(s, self.y)
        end_position == Vector2D(x.value, y.value)
        start_position == s.current_position
        polarity == IF s.is_region THEN to_region_variant(s.polarity)
                    ELSE s.polarity
        draw_commands ==
            IF ~s.is_region \/ backend.options.draw_region_outlines
            THEN D01Draw_create_draw_commands(self, s, backend, end_position,
                                              start_position, polarity)
            ELSE Ok(<< >>)
        region_points ==
            IF s.is_region
            THEN D01Draw_create_region_points(self, s, backend, end_position,
                                              start_position, polarity)
            ELSE Ok(<< >>)
    IN  IF ~x.ok THEN x
        ELSE IF ~y.ok THEN y
        ELSE IF ~draw_commands.ok THEN draw_commands
        ELSE IF ~region_points.ok THEN region_points
        ELSE Ok([state |->
                     [s EXCEPT !.current_position =
                                   IF s.is_region THEN @ ELSE end_position,
                               !.region_boundary_points =
                                   IF s.is_region
                                   THEN Some(region_points.value) ELSE @],
                 actions |-> Some(draw_commands.value)])

\* faulty variant: the draw commands are created inside a region too,
\* whatever draw_region_outlines says
D01Draw_update_drawing_state_always_draws(self, s, backend) ==
    LET x == parse_coordinate(s, self.x)
        y == parse_coordinate(s, self.y)
        end_position == Vector2D(x.value, y.value)
        start_position == s.current_position
        polarity == IF s.is_region THEN to_region_variant(s.polarity)
                    ELSE s.polarity
        draw_commands ==
            D01Draw_create_draw_commands(
                self, s,
                [backend EXCEPT !.options.draw_region_outlines = TRUE],
                end_position, start_position, polarity)
        region_points ==
            IF s.is_region
            THEN D01Draw_create_region_points(self, s, backend, end_position,
                                              start_position, polarity)
            ELSE Ok(<< >>)
    IN  IF ~x.ok THEN x
        ELSE IF ~y.ok THEN y
        ELSE IF ~draw_commands.ok THEN draw_commands
        ELSE IF ~region_points.ok THEN region_points
        ELSE Ok([state |->
                     [s EXCEPT !.current_position = end_position,
                               !.region_boundary_points =
                                   IF s.is_region
                                   THEN Some(region_points.value) ELSE @],
                 actions |-> Some(draw_commands.value)])

\* the returned pair (state, draw_commands), or the exception raised
D01Draw_update_drawing_state(self, s, backend) ==
    LET x == parse_coordinate(s, self.x)
        y == parse_coordinate(s, self.y)
        end_position == Vector2D(x.value, y.value)
        start_position == s.current_position
        polarity == IF s.is_region THEN to_region_variant(s.polarity)
                    ELSE s.polarity
        draw_commands ==
            IF ~s.is_region \/ backend.options.draw_region_outlines
            THEN D01Draw_create_draw_commands(self, s, backend, end_position,
                                              start_position, polarity)
            ELSE Ok(<< >>)
        region_points ==
            IF s.is_region
            THEN D01Draw_create_region_points(self, s, backend, end_position,
                                              start_position, polarity)
            ELSE Ok(<< >>)
    IN  IF ~x.ok THEN x
        ELSE IF ~y.ok THEN y
        ELSE IF ~draw_commands.ok THEN draw_commands
        ELSE IF ~region_points.ok THEN region_points
        ELSE Ok([state |->
                     [s EXCEPT !.current_position = end_position,
                               !.region_boundary_points =
                                   IF s.is_region
                                   THEN Some(region_points.value) ELSE @],
                 actions |-> Some(draw_commands.value)])

----------------------------------------------------------------------------
(* Parser.                                                                 *)

\* Parser.__init__(tokens, options)
InitParser ==
    /\ tokens \in TokenStack
    /\ parser_options \in ParserOptions
    /\ parser_state = IF IsNone(parser_options.initial_state)
                      THEN StateDefault
                      ELSE Unwrap(parser_options.initial_state)
    /\ draw_actions = << >>
    /\ next_token = 0
    /\ parser_raised = NoError
    /\ log = << >>
    /\ handle = None
    /\ calls = << >>
    /\ options = OptionsDefault
    /\ state = State2Default
    /\ main_command_buffer = CommandBuffer2(<< >>)
    /\ region_command_buffer = None
    /\ block_command_buffer_stack = << >>
    /\ step_and_repeat_command_buffer = None
    /\ state_before_step_and_repeat = None
    /\ raised = NoError
    /\ returned = Nothing
    /\ added = 0
    /\ open_order = << >>
    /\ last_op = "__init__"
    /\ captured = None
    /\ argument = None
    /\ current_token = None
    /\ reached_program_stop = FALSE
    /\ reached_optional_stop = FALSE
    /\ reached_end_of_file = FALSE
    /\ NoVisitor
    /\ NoObjects

\* Parser.backend
backend == parser_options.backend

\* faulty variant: the Warn policy logs the warning and lets the exception go on
Parser_update_drawing_state_warn_raises(token) ==
    LET result == D01Draw_update_drawing_state(token, parser_state, backend)
        policy == parser_options.on_update_drawing_state_error
    IN  IF result.ok
        THEN /\ parser_state' = result.value.state
             /\ draw_actions' = draw_actions \o Unwrap(result.value.actions)
             /\ UNCHANGED << parser_raised, log >>
        ELSE IF policy = "Warn"
        THEN /\ log' = Append(log, << "warning", token >>)
             /\ parser_raised' = result.error
             /\ UNCHANGED << parser_state, draw_actions >>
        ELSE /\ parser_raised' =
                    IF policy = "Raise" THEN result.error ELSE NoError
             /\ UNCHANGED << parser_state, draw_actions, log >>

\* faulty variant: the Raise policy wraps every exception, a ParserError too
Parser_update_drawing_state_wraps_all(token) ==
    LET result == D01Draw_update_drawing_state(token, parser_state, backend)
        policy == parser_options.on_update_drawing_state_error
    IN  IF result.ok
        THEN /\ parser_state' = result.value.state
             /\ draw_actions' = draw_actions \o Unwrap(result.value.actions)
             /\ UNCHANGED << parser_raised, log >>
        ELSE /\ parser_raised' =
                    IF policy = "Raise" THEN "OnUpdateDrawingStateError"
                    ELSE NoError
             /\ UNCHANGED << parser_state, draw_actions, log >>

\* faulty variant: the actions of a token are put in front of the list
Parser_update_drawing_state_prepends(token) ==
    LET result == D01Draw_update_drawing_state(token, parser_state, backend)
        policy == parser_options.on_update_drawing_state_error
    IN  IF result.ok
        THEN /\ parser_state' = result.value.state
             /\ draw_actions' = Unwrap(result.value.actions) \o draw_actions
             /\ UNCHANGED << parser_raised, log >>
        ELSE /\ parser_raised' =
                    IF policy = "Raise" THEN result.error ELSE NoError
             /\ UNCHANGED << parser_state, draw_actions, log >>

\* Parser._update_drawing_state(token); every token of the stack is a D01
Parser_update_drawing_state(token) ==
    LET result == D01Draw_update_drawing_state(token, parser_state, backend)
        policy == parser_options.on_update_drawing_state_error
    IN  IF result.ok
        THEN /\ parser_state' = result.value.state
             /\ draw_actions' =
                    IF IsNone(result.value.actions) THEN draw_actions
                    ELSE draw_actions \o Unwrap(result.value.actions)
             /\ UNCHANGED << parser_raised, log >>
        ELSE IF policy = "Ignore"
        THEN UNCHANGED << parser_state, draw_actions, parser_raised, log >>
        ELSE IF policy = "Raise"
        THEN /\ parser_raised' =
                    IF result.error \notin ParserError
                    THEN "OnUpdateDrawingStateError"
                    ELSE result.error
             /\ UNCHANGED << parser_state, draw_actions, log >>
        ELSE IF policy = "Warn"
        THEN /\ log' = Append(log, << "warning", token >>)
             /\ UNCHANGED << parser_state, draw_actions, parser_raised >>
        ELSE /\ log' = Append(log, << "callback", result.error, token >>)
             /\ UNCHANGED << parser_state, draw_actions, parser_raised >>

\* one turn of the loop of parse_iter over the k-th token of the stack:
\* the token is yielded unless its update raised
parse_iter(k) ==
    /\ IsNone(handle)
    /\ parser_raised = NoError
    /\ k = next_token + 1
    /\ k <= Len(tokens)
    /\ Parser_update_drawing_state(tokens[k])
    /\ next_token' = IF parser_raised' = NoError THEN k ELSE next_token
    /\ UNCHANGED << tokens, parser_options, handle >>

\* parse(): the loop has ended, the handle to the draw actions is returned
get_draw_actions_handle ==
    /\ IsNone(handle)
    /\ parser_raised = NoError
    /\ next_token = Len(tokens)
    /\ handle' = Some([draw_actions |-> draw_actions, backend |-> backend])
    /\ UNCHANGED << tokens, parser_options, parser_state, draw_actions,
                    next_token, parser_raised, log >>

----------------------------------------------------------------------------
(* Specification SpecParser: one Parser, built over any token stack and    *)
(* any options, runs parse().  calls records, for every call of a token's  *)
(* update_drawing_state, the place of the token in the stack and the state *)
(* it was given.                                                           *)

NextParser ==
    \/ /\ \E k \in 1 .. MaxTokens :
              /\ parse_iter(k)
              /\ calls' = Append(calls, [token |-> k,
                                         state |-> parser_state])
       /\ UNCHANGED << ctx_vars, history_vars, stop_vars, visitor_vars, object_vars >>
    \/ /\ get_draw_actions_handle
       /\ UNCHANGED << calls, ctx_vars, history_vars, stop_vars, visitor_vars, object_vars >>

SpecParser == InitParser /\ [][NextParser]_vars

\* parse() runs its loop to the end
SpecParserLive == SpecParser /\ WF_vars(NextParser)

----------------------------------------------------------------------------
(* What a step of the parser is measured against.                          *)

\* ParserOptions.on_update_drawing_state_error of the parser
OnError == parser_options.on_update_drawing_state_error

\* a step of parse_iter: the only step that records a call
IsParseIterStep == Len(calls') = Len(calls) + 1

\* what the update_drawing_state of the token the loop has come to gives on
\* the parser's state
NextOutcome ==
    D01Draw_update_drawing_state(tokens[next_token + 1], parser_state,
                                 backend)

\* the draw actions a step has added at the end of the list
NewDrawActions ==
    SubSeq(draw_actions', Len(draw_actions) + 1, Len(draw_actions'))

\* the state and the draw actions after the first n tokens of the stack
\* were interpreted one after the other from the parser's first state, a
\* token that raises leaving both as they are
RECURSIVE InDocumentOrder(_)
InDocumentOrder(n) ==
    IF n = 0
    THEN [state |-> IF IsNone(parser_options.initial_state) THEN StateDefault
                    ELSE Unwrap(parser_options.initial_state),
          actions |-> << >>]
    ELSE LET before == InDocumentOrder(n - 1)
             result == D01Draw_update_drawing_state(tokens[n], before.state,
                                                    backend)
         IN  IF result.ok
             THEN [state |-> result.value.state,
                   actions |-> before.actions \o Unwrap(result.value.actions)]
             ELSE before

----------------------------------------------------------------------------
(* C7: under the Warn and Ignore policies a token whose                    *)
(* update_drawing_state raises has no effect: the parser's state and its   *)
(* draw actions stay exactly what they were, no exception leaves the       *)
(* parser and the loop goes on to the next token; and the pass goes on     *)
(* until every token of the stack has been visited.                        *)
C7_FailingTokenSkipped ==
    /\ [][(IsParseIterStep /\ OnError \in {"Warn", "Ignore"}
              /\ ~NextOutcome.ok)
             => /\ parser_state' = parser_state
                /\ draw_actions' = draw_actions
                /\ parser_raised' = NoError
                /\ next_token' = next_token + 1]_vars
    /\ (OnError \in {"Warn", "Ignore"})
          ~> (~IsNone(handle) /\ Len(calls) = Len(tokens))

\* under Warn the first token failed and was logged, the second one was
\* interpreted and drew, and parse() returned
C7_Witness ==
    /\ OnError = "Warn"
    /\ ~IsNone(handle)
    /\ Len(calls) = 2
    /\ log = << << "warning", tokens[1] >> >>
    /\ calls[2].state = calls[1].state
    /\ Len(draw_actions) = 3

----------------------------------------------------------------------------
(* C8: under the Raise policy the first token whose update_drawing_state   *)
(* raises aborts the pass: the exception leaves the parser as it is when   *)
(* it is a ParserError and as an OnUpdateDrawingStateError otherwise, the  *)
(* state and the draw actions are not touched by the failing token, so the *)
(* draw actions hold only the actions of the tokens before it, and after   *)
(* the abort no token is processed and no handle is returned.              *)
C8_RaiseAbortsPass ==
    /\ [][(IsParseIterStep /\ OnError = "Raise" /\ ~NextOutcome.ok)
             => /\ parser_raised' =
                       IF NextOutcome.error \in ParserError
                       THEN NextOutcome.error
                       ELSE "OnUpdateDrawingStateError"
                /\ parser_state' = parser_state
                /\ draw_actions' = draw_actions
                /\ next_token' = next_token]_vars
    /\ [][parser_raised = NoError]_vars
    /\ [](parser_raised # NoError
             => /\ OnError = "Raise"
                /\ IsNone(handle)
                /\ Len(calls) = next_token + 1
                /\ draw_actions = InDocumentOrder(next_token).actions
                /\ \A n \in 1 .. next_token :
                       D01Draw_update_drawing_state(
                           tokens[n], calls[n].state, backend).ok)

\* the second token failed for want of a coordinate format, after the first
\* token had drawn: the ParserError reached the caller
C8_Witness ==
    /\ OnError = "Raise"
    /\ parser_raised = "CoordinateFormatNotSetError"
    /\ next_token = 1
    /\ Len(calls) = 2
    /\ Len(draw_actions) = 3
    /\ Len(tokens) = 2

----------------------------------------------------------------------------
(* C9: interpretation is a single pass in document order.  parse_iter      *)
(* calls update_drawing_state once per token, in the order of the token    *)
(* stack, every call is given the state the token before produced, and the *)
(* draw-action list is the concatenation of the actions of the tokens in   *)
(* that order; when parse() returns, every token was called exactly once.  *)
C9_SinglePassInOrder ==
    /\ Len(calls) = IF parser_raised = NoError THEN next_token
                    ELSE next_token + 1
    /\ Len(calls) <= Len(tokens)
    /\ \A n \in 1 .. Len(calls) :
           /\ calls[n].token = n
           /\ calls[n].state = InDocumentOrder(n - 1).state
    /\ parser_state = InDocumentOrder(Len(calls)).state
    /\ draw_actions = InDocumentOrder(Len(calls)).actions
    /\ ~IsNone(handle)
          => /\ Len(calls) = Len(tokens)
             /\ Unwrap(handle).draw_actions = draw_actions

\* parse() returned after two tokens that both drew, the second one called
\* with the state the first one produced
C9_Witness ==
    /\ ~IsNone(handle)
    /\ Len(calls) = 2
    /\ Len(draw_actions) = 6
    /\ draw_actions[2] # draw_actions[5]
    /\ calls[2].state # calls[1].state
    /\ calls[2].state.current_position # Vector2D(OffsetNULL, OffsetNULL)

----------------------------------------------------------------------------
\* a D01 is about to be interpreted in linear mode, outside a region, with
\* an aperture selected, and its end position resolves
LinearDrawOutsideRegion ==
    /\ IsParseIterStep
    /\ parser_state.draw_mode = "Linear"
    /\ ~parser_state.is_region
    /\ ~IsNone(parser_state.current_aperture)
    /\ parse_coordinate(parser_state, tokens[next_token + 1].x).ok
    /\ parse_coordinate(parser_state, tokens[next_token + 1].y).ok

\* the position the coordinates of the D01 resolve to
ResolvedEndPosition ==
    Vector2D(parse_coordinate(parser_state, tokens[next_token + 1].x).value,
             parse_coordinate(parser_state, tokens[next_token + 1].y).value)

\* the line from the current position to the resolved end position, with
\* the line width of the current aperture and the current polarity
ResolvedLine ==
    DrawVectorLine(parser_state.polarity, parser_state.current_position,
                   ResolvedEndPosition,
                   Unwrap(parser_state.current_aperture).line_width)

(* C10, as claimed: a D01 in linear draw mode outside a region, with an    *)
(* aperture selected, produces exactly one resolved line command, from the *)
(* current position to the resolved end position, with the current         *)
(* aperture's line width and the current polarity, and no other drawing    *)
(* command.                                                                *)
C10_OneLineAndNothingElse ==
    [][LinearDrawOutsideRegion
          => NewDrawActions = << ResolvedLine >>]_vars

(* C10, amended: such a D01 produces exactly one resolved line command,    *)
(* from the current position to the resolved end position, with the        *)
(* current aperture's line width and the current polarity, after a paste   *)
(* of the current aperture at the current position and before a paste of   *)
(* it at the end position, and no other drawing command.                   *)
C10_OneLineBetweenTwoPastes ==
    [][LinearDrawOutsideRegion
          => NewDrawActions =
                 << DrawPaste(parser_state.polarity,
                              parser_state.current_position,
                              Unwrap(parser_state.current_aperture).aperture_id),
                    ResolvedLine,
                    DrawPaste(parser_state.polarity, ResolvedEndPosition,
                              Unwrap(parser_state.current_aperture).aperture_id)
                 >>]_vars

\* a second D01 drew a clear line that starts where the first one ended,
\* away from the origin, and ends somewhere else
C10_Witness ==
    /\ Len(calls) = 2
    /\ Len(draw_actions) = 6
    /\ calls[2].state.draw_mode = "Linear"
    /\ ~calls[2].state.is_region
    /\ draw_actions[5].kind = "vector_line"
    /\ draw_actions[5].polarity = "Clear"
    /\ draw_actions[5].start_position = calls[2].state.current_position
    /\ draw_actions[5].start_position # Vector2D(OffsetNULL, OffsetNULL)
    /\ draw_actions[5].end_position # draw_actions[5].start_position

----------------------------------------------------------------------------
(* C11: D01 advances the current position unconditionally.  After every    *)
(* D01 that completes, in linear or circular mode and inside or outside a  *)
(* region, the current position is the resolved end position, and the      *)
(* selected aperture, the draw mode, the polarity and the region flag are  *)
(* what they were.                                                         *)
C11_D01AdvancesPosition ==
    [][(IsParseIterStep /\ NextOutcome.ok)
          => /\ parser_state'.current_position = ResolvedEndPosition
             /\ parser_state'.current_aperture = parser_state.current_aperture
             /\ parser_state'.draw_mode = parser_state.draw_mode
             /\ parser_state'.polarity = parser_state.polarity
             /\ parser_state'.is_region = parser_state.is_region]_vars

\* two D01 completed in circular mode inside a region (each one appended
\* its arc to the contour); the second one moved the current position from
\* where the first one had left it
C11_Witness ==
    /\ Len(calls) = 2
    /\ parser_raised = NoError
    /\ parser_state.is_region
    /\ parser_state.draw_mode = "ClockwiseCircular"
    /\ ~IsNone(parser_state.region_boundary_points)
    /\ Len(Unwrap(parser_state.region_boundary_points)) = 2
    /\ calls[2].state.current_position # Vector2D(OffsetNULL, OffsetNULL)
    /\ parser_state.current_position # calls[2].state.current_position
    /\ parser_state.current_position.y = tokens[2].y.offset * 100

----------------------------------------------------------------------------
(* Specification SpecCoordinate: State.parse_coordinate, called with any   *)
(* coordinate on any State.  argument is the coordinate of the last call,  *)
(* raised and returned are what the call raised or returned.               *)

\* raw offsets of the coordinates and components of the current position
MaxOffset == 2

\* no Parser2Context has been constructed with options of its own
NoContext ==
    /\ options = OptionsDefault
    /\ state = State2Default
    /\ main_command_buffer = CommandBuffer2(<< >>)
    /\ region_command_buffer = None
    /\ block_command_buffer_stack = << >>
    /\ step_and_repeat_command_buffer = None
    /\ state_before_step_and_repeat = None
    /\ raised = NoError
    /\ returned = Nothing
    /\ added = 0
    /\ open_order = << >>
    /\ last_op = "__init__"
    /\ captured = None
    /\ argument = None
    /\ current_token = None
    /\ reached_program_stop = FALSE
    /\ reached_optional_stop = FALSE
    /\ reached_end_of_file = FALSE

\* the coordinates of a command: each axis present with raw digits, or missing
Coordinates ==
    {CoordinateNew(coordinate_type, offset) :
        coordinate_type \in {"X", "Y", "I", "J"},
        offset \in {None} \cup {Some(n) : n \in 0 .. MaxOffset}}

\* the states a coordinate is resolved in: any current position, the unit
\* and the coordinate format set or not
CoordinateStates ==
    {State(Vector2D(x, y), draw_units, coordinate_parser, None, "Linear",
           "Dark", FALSE, None, None) :
        x \in 0 .. MaxOffset, y \in 0 .. MaxOffset,
        draw_units \in {None, Some("Millimeters"), Some("Inches")},
        coordinate_parser \in {None} \cup {Some([decimal |-> d]) : d \in 1 .. 3}}

InitCoordinate ==
    /\ NoContext
    /\ NoVisitor
    /\ NoObjects
    /\ tokens = << >>
    /\ parser_options = None
    /\ parser_state \in CoordinateStates
    /\ draw_actions = << >>
    /\ next_token = 0
    /\ parser_raised = NoError
    /\ log = << >>
    /\ handle = None
    /\ calls = << >>

\* state.parse_coordinate(coordinate), called on the state
call_parse_coordinate(coordinate) ==
    LET result == parse_coordinate(parser_state, coordinate)
    IN  /\ raised' = IF result.ok THEN NoError ELSE result.error
        /\ returned' = IF result.ok THEN Value(result.value) ELSE Nothing
        /\ UNCHANGED << options, state, main_command_buffer,
                        region_command_buffer, block_command_buffer_stack,
                        step_and_repeat_command_buffer,
                        state_before_step_and_repeat, added, parser_vars >>

NextCoordinate ==
    \E coordinate \in Coordinates :
        /\ call_parse_coordinate(coordinate)
        /\ argument' = Some(coordinate)
        /\ UNCHANGED << open_order, last_op, captured, stop_vars, visitor_vars, object_vars >>

SpecCoordinate == InitCoordinate /\ [][NextCoordinate]_vars

\* the last call was given a coordinate of one of these types
Resolved(coordinate_types) ==
    /\ ~IsNone(argument)
    /\ Unwrap(argument).coordinate_type \in coordinate_types

(* C12: coordinate resolution treats a missing axis as a value, not as an  *)
(* error.  State.parse_coordinate returns the x of the current position    *)
(* for a missing X, the y of the current position for a missing Y and zero *)
(* for a missing I or J, in every state, one with no coordinate format or  *)
(* no unit set included.                                                   *)
C12_MissingAxisIsAValue ==
    /\ Resolved({"MISSING_X"})
          => /\ raised = NoError
             /\ returned = Value(parser_state.current_position.x)
    /\ Resolved({"MISSING_Y"})
          => /\ raised = NoError
             /\ returned = Value(parser_state.current_position.y)
    /\ Resolved({"MISSING_I", "MISSING_J"})
          => /\ raised = NoError
             /\ returned = Value(0)

\* a missing X was resolved to the x of the current position, which is
\* neither zero nor the y, with neither format nor unit set
C12_Witness ==
    /\ Resolved({"MISSING_X"})
    /\ IsNone(parser_state.coordinate_parser)
    /\ IsNone(parser_state.draw_units)
    /\ parser_state.current_position.x > 0
    /\ parser_state.current_position.x # parser_state.current_position.y
    /\ returned = Value(parser_state.current_position.x)

----------------------------------------------------------------------------
(* C13: the coordinate format must be set before any coordinate is         *)
(* resolved.  Resolving a present coordinate raises                        *)
(* CoordinateFormatNotSetError while no format is set, and UnitNotSetError *)
(* while the format is set and no unit is; an offset is produced from a    *)
(* present coordinate only when both are set.                              *)
C13_FormatAndUnitRequired ==
    Resolved({"X", "Y", "I", "J"})
       => /\ IsNone(parser_state.coordinate_parser)
             => /\ raised = "CoordinateFormatNotSetError"
                /\ returned = Nothing
          /\ (~IsNone(parser_state.coordinate_parser)
                 /\ IsNone(parser_state.draw_units))
             => /\ raised = "UnitNotSetError"
                /\ returned = Nothing
          /\ returned.kind = "value"
             => /\ ~IsNone(parser_state.coordinate_parser)
                /\ ~IsNone(parser_state.draw_units)
                /\ raised = NoError

\* a present coordinate was refused in a state with a unit but no format
C13_Witness ==
    /\ Resolved({"X"})
    /\ Unwrap(argument).offset > 0
    /\ IsNone(parser_state.coordinate_parser)
    /\ ~IsNone(parser_state.draw_units)
    /\ raised = "CoordinateFormatNotSetError"

----------------------------------------------------------------------------
\* a D01 that has to draw is about to be interpreted with no aperture
\* selected
DrawWithoutAperture ==
    /\ IsParseIterStep
    /\ IsNone(parser_state.current_aperture)
    /\ ~parser_state.is_region \/ backend.options.draw_region_outlines

\* the error of the first coordinate of the D01 that does not resolve
FirstCoordinateError ==
    IF ~parse_coordinate(parser_state, tokens[next_token + 1].x).ok
    THEN parse_coordinate(parser_state, tokens[next_token + 1].x).error
    ELSE IF ~parse_coordinate(parser_state, tokens[next_token + 1].y).ok
    THEN parse_coordinate(parser_state, tokens[next_token + 1].y).error
    ELSE NoError

----------------------------------------------------------------------------
\* a D01 is about to be interpreted inside a region, with
\* draw_region_outlines disabled
ContourOnly ==
    /\ IsParseIterStep
    /\ parser_state.is_region
    /\ ~backend.options.draw_region_outlines

(* C15: region contour-only invariant.  While the region flag is set and   *)
(* draw_region_outlines is disabled, a D01 returns no drawing command at   *)
(* all (no paste, line or arc): the draw actions stay what they were, and  *)
(* a D01 that completes only appends its contour points to the points of   *)
(* the region (in linear mode the current position and the end position)   *)
(* and moves the current position.  So drawing commands appear in region   *)
(* mode only when draw_region_outlines is enabled.                         *)
C15_RegionContourOnly ==
    [][/\ ContourOnly
          => /\ draw_actions' = draw_actions
             /\ NextOutcome.ok
                => /\ NextOutcome.value.actions = Some(<< >>)
                   /\ ~IsNone(parser_state.region_boundary_points)
                   /\ LET old == Unwrap(parser_state.region_boundary_points)
                          new == Unwrap(parser_state'.region_boundary_points)
                      IN  /\ Len(new) > Len(old)
                          /\ SubSeq(new, 1, Len(old)) = old
                          /\ parser_state.draw_mode = "Linear"
                             => new = old \o << parser_state.current_position,
                                                ResolvedEndPosition >>
                   /\ [parser_state' EXCEPT
                          !.region_boundary_points =
                              parser_state.region_boundary_points,
                          !.current_position = parser_state.current_position]
                      = parser_state
       /\ (IsParseIterStep /\ parser_state.is_region
              /\ draw_actions' # draw_actions)
          => backend.options.draw_region_outlines]_vars

\* two D01 with an aperture selected completed in linear mode inside a
\* region: four contour points, no drawing command
C15_Witness ==
    /\ ~IsNone(handle)
    /\ Len(calls) = 2
    /\ parser_state.is_region
    /\ ~backend.options.draw_region_outlines
    /\ ~IsNone(parser_state.current_aperture)
    /\ parser_state.draw_mode = "Linear"
    /\ ~IsNone(parser_state.region_boundary_points)
    /\ Len(Unwrap(parser_state.region_boundary_points)) = 4
    /\ Unwrap(parser_state.region_boundary_points)[2]
           = Unwrap(parser_state.region_boundary_points)[3]
    /\ Unwrap(parser_state.region_boundary_points)[4]
           = parser_state.current_position
    /\ Unwrap(parser_state.region_boundary_points)[4]
           # Unwrap(parser_state.region_boundary_points)[3]
    /\ draw_actions = << >>


----------------------------------------------------------------------------
(* Part III (specification SpecRegistry): the aperture registry, the       *)
(* selected aperture, the coordinate format and the stop flags of          *)
(* Parser2Context.  The context hands every registry and format operation  *)
(* to a method of State2 and stores the State2 that method returns.        *)
(* last_op is the method called last and argument its arguments.           *)

\* the tokens a file that selects apertures and stops is made of
Tokens2 == {"D10", "D11", "M00", "M01", "M02"}

\* ApertureNotFoundError(aperture_number): the class and its message, which
\* holds the number
ApertureNotFoundError(aperture_number) ==
    "ApertureNotFoundError: Aperture " \o aperture_number
        \o " not found in the aperture dictionary."

\* ApertureNotDefined2Error(token): the error holds the current token, which
\* is None before the first set_current_token
ApertureNotDefined2Error(token) ==
    "ApertureNotDefined2Error("
        \o (IF IsNone(token) THEN "None" ELSE Unwrap(token)) \o ")"

\* the buffers and options of the context, which no operation of this part
\* touches
buffers == << options, main_command_buffer, region_command_buffer,
              block_command_buffer_stack, step_and_repeat_command_buffer,
              state_before_step_and_repeat >>

\* ImmutableMapping.update(key, value): a new mapping with the key set
DictUpdate(dict, key, value) ==
    [k \in DOMAIN dict \cup {key} |-> IF k = key THEN value ELSE dict[k]]

\* State2.get_current_aperture_id
State2_get_current_aperture_id(s) == s.current_aperture_id

\* State2.set_current_aperture_id: selecting an identifier that has no
\* definition fails with the error naming it; None deselects
State2_set_current_aperture_id(s, current_aperture) ==
    IF /\ ~IsNone(current_aperture)
       /\ Unwrap(current_aperture) \notin DOMAIN s.apertures
    THEN Err(ApertureNotFoundError(Unwrap(current_aperture)))
    ELSE Ok([s EXCEPT !.current_aperture_id = current_aperture])

\* State2.get_aperture: a dictionary lookup
State2_get_aperture(s, key) ==
    IF key \in DOMAIN s.apertures THEN Ok(s.apertures[key])
    ELSE Err("KeyError")

\* State2.set_aperture: the definition of an identifier already present
\* fails with a redefinition error
State2_set_aperture(s, key, value) ==
    IF key \in DOMAIN s.apertures THEN Err("ApertureRedefinitionError")
    ELSE Ok([s EXCEPT !.apertures = DictUpdate(@, key, value)])

\* State2.set_coordinate_parser: a second format declaration fails with a
\* redefinition error
State2_set_coordinate_parser(s, coordinate_parser) ==
    IF ~IsNone(s.coordinate_parser)
    THEN Err("CoordinateFormatRedefinitionError")
    ELSE Ok([s EXCEPT !.coordinate_parser = Some(coordinate_parser)])

\* self.set_state(result) once the State2 method has returned; an exception
\* of the State2 method leaves before set_state is reached
set_state_from(result) ==
    IF result.ok
    THEN state' = result.value /\ Returns(Nothing) /\ UNCHANGED buffers
    ELSE Raises(result.error)

set_current_token(token) ==
    /\ current_token' = Some(token)
    /\ Returns(Nothing)
    /\ UNCHANGED << state, buffers, reached_program_stop,
                    reached_optional_stop, reached_end_of_file >>

get_current_aperture_id ==
    /\ Returns(Value(State2_get_current_aperture_id(state)))
    /\ UNCHANGED << state, buffers, stop_vars >>

set_current_aperture_id(current_aperture) ==
    /\ set_state_from(State2_set_current_aperture_id(state, current_aperture))
    /\ UNCHANGED stop_vars

\* faulty variant: a missing key is answered with None (dict.get)
get_aperture_or_none(key) ==
    LET result == State2_get_aperture(state, key)
    IN  /\ IF result.ok THEN Returns(Value(result.value))
           ELSE Returns(Nothing)
        /\ UNCHANGED << state, buffers, stop_vars >>

get_aperture(key) ==
    LET result == State2_get_aperture(state, key)
    IN  /\ IF result.ok THEN Returns(Value(result.value))
           ELSE IF result.error = "KeyError"
           THEN Raises(ApertureNotDefined2Error(current_token))
           ELSE Raises(result.error)
        /\ UNCHANGED << state, buffers, stop_vars >>

\* faulty variant: the identifier is assigned in the registry whether or not
\* it is present
set_aperture_replaces(key, value) ==
    /\ state' = [state EXCEPT !.apertures = DictUpdate(@, key, value)]
    /\ Returns(Nothing)
    /\ UNCHANGED << buffers, stop_vars >>

set_aperture(key, value) ==
    /\ set_state_from(State2_set_aperture(state, key, value))
    /\ UNCHANGED stop_vars

\* faulty variant: the format is assigned whether or not one is set
set_coordinate_parser_replaces(coordinate_parser) ==
    /\ state' = [state EXCEPT !.coordinate_parser = Some(coordinate_parser)]
    /\ Returns(Nothing)
    /\ UNCHANGED << buffers, stop_vars >>

set_coordinate_parser(coordinate_parser) ==
    /\ set_state_from(State2_set_coordinate_parser(state, coordinate_parser))
    /\ UNCHANGED stop_vars

halt_parser ==
    /\ Raises("ExitParsingProcess2Interrupt")
    /\ UNCHANGED stop_vars

set_reached_program_stop ==
    /\ reached_program_stop' = TRUE
    /\ Returns(Nothing)
    /\ UNCHANGED << state, buffers, current_token, reached_optional_stop,
                    reached_end_of_file >>

get_reached_program_stop ==
    /\ Returns(Value(reached_program_stop))
    /\ UNCHANGED << state, buffers, stop_vars >>

set_reached_optional_stop ==
    /\ reached_optional_stop' = TRUE
    /\ Returns(Nothing)
    /\ UNCHANGED << state, buffers, current_token, reached_program_stop,
                    reached_end_of_file >>

get_reached_optional_stop ==
    /\ Returns(Value(reached_optional_stop))
    /\ UNCHANGED << state, buffers, stop_vars >>

\* faulty variant: reaching the end of file clears the two stop flags and
\* halts the parser
set_reached_end_of_file_halts ==
    /\ reached_end_of_file' = TRUE
    /\ reached_program_stop' = FALSE
    /\ reached_optional_stop' = FALSE
    /\ Raises("ExitParsingProcess2Interrupt")
    /\ UNCHANGED current_token

set_reached_end_of_file ==
    /\ reached_end_of_file' = TRUE
    /\ Returns(Nothing)
    /\ UNCHANGED << state, buffers, current_token, reached_program_stop,
                    reached_optional_stop >>

get_reached_end_of_file ==
    /\ Returns(Value(reached_end_of_file))
    /\ UNCHANGED << state, buffers, stop_vars >>

\* one call on the context; last_op and argument record it
Called(op, arg) ==
    /\ last_op' = op
    /\ argument' = arg
    /\ UNCHANGED << added, open_order, captured, parser_vars, visitor_vars,
                    object_vars >>

NextRegistry ==
    \/ \E token \in Tokens2 :
           set_current_token(token) /\ Called("set_current_token", Some(token))
    \/ get_current_aperture_id /\ Called("get_current_aperture_id", None)
    \/ \E id \in {None} \cup {Some(i) : i \in ApertureIDs} :
           /\ set_current_aperture_id(id)
           /\ Called("set_current_aperture_id", Some(id))
    \/ \E key \in ApertureIDs :
           get_aperture(key) /\ Called("get_aperture", Some(key))
    \/ \E key \in ApertureIDs, value \in Apertures :
           /\ set_aperture(key, value)
           /\ Called("set_aperture", Some(<< key, value >>))
    \/ \E coordinate_parser \in CoordinateFormats :
           /\ set_coordinate_parser(coordinate_parser)
           /\ Called("set_coordinate_parser", Some(coordinate_parser))
    \/ halt_parser /\ Called("halt_parser", None)
    \/ set_reached_program_stop /\ Called("set_reached_program_stop", None)
    \/ get_reached_program_stop /\ Called("get_reached_program_stop", None)
    \/ set_reached_optional_stop /\ Called("set_reached_optional_stop", None)
    \/ get_reached_optional_stop /\ Called("get_reached_optional_stop", None)
    \/ set_reached_end_of_file /\ Called("set_reached_end_of_file", None)
    \/ get_reached_end_of_file /\ Called("get_reached_end_of_file", None)

SpecRegistry == Init /\ [][NextRegistry]_vars

\* the last call was op, given arg
LastCall(op, arg) == last_op = op /\ argument = Some(arg)

StopSetters ==
    {"set_reached_program_stop", "set_reached_optional_stop",
     "set_reached_end_of_file"}

\* the context takes the next token
NextTokenTaken ==
    \E token \in Tokens2 :
        set_current_token(token) /\ Called("set_current_token", Some(token))

(* C19: the terminal markers each set only their own reached flag and do   *)
(* not halt the pass.  Every flag is false after construction; each of     *)
(* set_reached_program_stop, set_reached_optional_stop and                 *)
(* set_reached_end_of_file sets its own flag, leaves the two other flags,  *)
(* the interpreter state and the buffers as they were and returns without  *)
(* raising; the context takes a later token whatever flags are set; and no *)
(* operation clears a flag that is set.                                    *)
C19_StopFlagsOnly ==
    /\ ~reached_program_stop /\ ~reached_optional_stop /\ ~reached_end_of_file
    /\ [][/\ last_op' = "set_reached_program_stop" =>
                 /\ reached_program_stop'
                 /\ UNCHANGED << reached_optional_stop, reached_end_of_file >>
          /\ last_op' = "set_reached_optional_stop" =>
                 /\ reached_optional_stop'
                 /\ UNCHANGED << reached_program_stop, reached_end_of_file >>
          /\ last_op' = "set_reached_end_of_file" =>
                 /\ reached_end_of_file'
                 /\ UNCHANGED << reached_program_stop, reached_optional_stop >>
          /\ last_op' \in StopSetters =>
                 /\ raised' = NoError
                 /\ UNCHANGED << state, buffers, current_token >>
          /\ reached_program_stop => reached_program_stop'
          /\ reached_optional_stop => reached_optional_stop'
          /\ reached_end_of_file => reached_end_of_file']_vars
    /\ [](ENABLED NextTokenTaken)

\* with the end of file reached and the two other flags still false, the
\* call made last defined the aperture of a later token
C19_Witness ==
    /\ reached_end_of_file
    /\ ~reached_program_stop
    /\ ~reached_optional_stop
    /\ current_token = Some("D10")
    /\ last_op = "set_aperture"
    /\ raised = NoError
    /\ "D10" \in DOMAIN state.apertures


----------------------------------------------------------------------------
(* Part IV (specification SpecVisitor): Node.visit(visitor), the double    *)
(* dispatch of the AST nodes on AstVisitor (ast/visitor.py).  visitor is   *)
(* the set of handlers the class of the visitor defines itself (none: the  *)
(* base AstVisitor); a handler of the visitor's own appends the node to    *)
(* visited.  last_op is "visit" and argument the node visited.             *)

\* visits one visitor's own handlers record
MaxVisits == 2

\* the methods class AstVisitor defines
AstVisitorHandlers ==
    {"on_ab_close", "on_ab_open", "on_ad", "on_am_close", "on_am_open",
     "on_sr_close", "on_sr_open",
     "on_ta", "on_td", "on_tf", "on_to",
     "on_d01", "on_d02", "on_d03", "on_dnn",
     "on_g01", "on_g02", "on_g03", "on_g04", "on_g36", "on_g37", "on_g54",
     "on_g55", "on_g70", "on_g71", "on_g74", "on_g75", "on_g90", "on_g91",
     "on_lm", "on_ln", "on_lp", "on_lr", "on_ls",
     "on_m00", "on_m01", "on_m02",
     "on_add", "on_div", "on_mul", "on_sub", "on_neg", "on_pos",
     "on_assignment", "on_constant", "on_expression", "on_variable",
     "on_command_end", "on_coordinate", "on_extended_command_close",
     "on_extended_command_open",
     "on_code_0", "on_code_1", "on_code_2", "on_code_4", "on_code_5",
     "on_code_6", "on_code_7", "on_code_20", "on_code_21", "on_code_22",
     "on_fs", "on_in", "on_ip", "on_mo", "on_of"}

\* the node classes that define visit
Nodes ==
    {"ADC", "ADmacro", "TA_UserName", "TA_AperFunction", "TA_DrillTolerance",
     "TA_FlashText", "D01", "D03", "Dnn", "G03", "G04", "G55", "G90", "LP",
     "Code7"}

\* the method of the visitor that the visit of each node class calls
visit_callback(node) ==
    CASE node = "ADC" -> "on_adc"
      [] node = "ADmacro" -> "on_ad_macro"
      [] node = "TA_UserName" -> "on_ta_user_name"
      [] node = "TA_AperFunction" -> "on_ta_aper_function"
      [] node = "TA_DrillTolerance" -> "on_ta_drill_tolerance"
      [] node = "TA_FlashText" -> "on_ta_flash_text"
      [] node = "D01" -> "on_d01"
      [] node = "D03" -> "on_d03"
      [] node = "Dnn" -> "on_dnn"
      [] node = "G03" -> "on_g03"
      [] node = "G04" -> "on_g04"
      [] node = "G55" -> "on_g55"
      [] node = "G90" -> "on_g90"
      [] node = "LP" -> "on_lp"
      [] node = "Code7" -> "on_code_7"

\* handlers a subclass of AstVisitor defines itself, as Formatter does
OwnHandlers == {"on_d01", "on_adc"}

\* AstVisitor() and the objects of its partial subclasses
Visitors == SUBSET OwnHandlers

InitVisitor ==
    /\ NoContext
    /\ NoParser
    /\ visitor \in Visitors
    /\ visited = << >>
    /\ NoObjects

\* node.visit(visitor): the attribute is looked up on the visitor, in its
\* class first and in AstVisitor next, and called with the node; a handler
\* of AstVisitor has a docstring for a body
visit(node) ==
    LET callback == visit_callback(node)
    IN  IF callback \in visitor
        THEN /\ Len(visited) < MaxVisits
             /\ visited' = Append(visited, node)
             /\ Returns(Nothing)
             /\ UNCHANGED << state, buffers, visitor >>
        ELSE IF callback \in AstVisitorHandlers
        THEN /\ Returns(Nothing)
             /\ UNCHANGED << state, buffers, visitor_vars >>
        ELSE /\ Raises("AttributeError")
             /\ UNCHANGED visitor_vars

NextVisitor ==
    \E node \in Nodes :
        /\ visit(node)
        /\ last_op' = "visit"
        /\ argument' = Some(node)
        /\ UNCHANGED << added, open_order, captured, parser_vars, stop_vars,
                        object_vars >>

SpecVisitor == InitVisitor /\ [][NextVisitor]_vars

(* C20: the visit of every node kind dispatches to a handler method that   *)
(* the base AstVisitor defines, and every base handler is a no-op: the     *)
(* visit of any node with the base visitor, or with a partial subclass     *)
(* that leaves the node's handler to the base, completes without error     *)
(* and changes nothing.                                                    *)
C20_EveryVisitIsHandled ==
    [][\A node \in Nodes :
          LastCall("visit", node)' =>
              /\ visit_callback(node) \in AstVisitorHandlers
              /\ visit_callback(node) \notin visitor =>
                     /\ raised' = NoError
                     /\ UNCHANGED << visitor_vars, ctx_vars >>]_vars


----------------------------------------------------------------------------
(* Part V (specification SpecExpression): Grammar.expression, the macro    *)
(* expression parser built with pp.infix_notation                          *)
(* (parser/pyparsing/grammar.py).  argument is the text handed to the      *)
(* parser, a sequence of lexemes; returned is the expression node parsed   *)
(* from it.                                                                *)

\* lexemes of one expression text
MaxLexemes == 5

\* factor = constant | variable: the operands of the model
Factors == {"a", "b", "c"}

Lexemes == Factors \cup {"+", "-", "x", "/", "(", ")"}

\* an expression node: its class and its operands in the order parsed
ExpressionNode(cls, operands) == [cls |-> cls, operands |-> operands]

\* faulty variant: multiplication is listed before division
expression_levels_mul_first ==
    << [op |-> "-", arity |-> 1, cls |-> "Neg"],
       [op |-> "+", arity |-> 1, cls |-> "Pos"],
       [op |-> "x", arity |-> 2, cls |-> "Mul"],
       [op |-> "/", arity |-> 2, cls |-> "Div"],
       [op |-> "-", arity |-> 2, cls |-> "Sub"],
       [op |-> "+", arity |-> 2, cls |-> "Add"] >>

\* the operator list handed to pp.infix_notation, the level parsed first
\* (binding tightest) first: unary operators are right associative, binary
\* operators left associative
expression_levels ==
    << [op |-> "-", arity |-> 1, cls |-> "Neg"],
       [op |-> "+", arity |-> 1, cls |-> "Pos"],
       [op |-> "/", arity |-> 2, cls |-> "Div"],
       [op |-> "x", arity |-> 2, cls |-> "Mul"],
       [op |-> "-", arity |-> 2, cls |-> "Sub"],
       [op |-> "+", arity |-> 2, cls |-> "Add"] >>

\* a parser element did not match
NoMatch == [ok |-> FALSE, node |-> ExpressionNode("none", << >>), loc |-> 0]

\* a parser element matched node and left the text at loc
Match(node, loc) == [ok |-> TRUE, node |-> node, loc |-> loc]

LexemeAt(s, loc) == IF loc <= Len(s) THEN s[loc] ELSE "end"

RECURSIVE infix_level(_, _, _)
RECURSIVE infix_operands(_, _, _, _)

\* (opExpr + lastExpr)[1, ...]: operands are taken while the operator and
\* an expression of the level below follow; a repetition that fails leaves
\* the text where the last one ended
infix_operands(k, s, loc, operands) ==
    IF LexemeAt(s, loc) # expression_levels[k].op
    THEN [operands |-> operands, loc |-> loc]
    ELSE LET next == infix_level(k - 1, s, loc + 1)
         IN  IF next.ok
             THEN infix_operands(k, s, next.loc, Append(operands, next.node))
             ELSE [operands |-> operands, loc |-> loc]

\* level 0 is base_expr | ( "(" + ret + ")" ); level k is
\* matchExpr | lastExpr for entry k of the operator list, with
\* matchExpr = Group(opExpr + thisExpr) for a unary operator and
\* Group(lastExpr + (opExpr + lastExpr)[1, ...]) for a binary one, the
\* operators suppressed and the group handed to the parse action of cls
infix_level(k, s, loc) ==
    IF k = 0
    THEN IF LexemeAt(s, loc) \in Factors
         THEN Match(ExpressionNode(s[loc], << >>), loc + 1)
         ELSE IF LexemeAt(s, loc) = "("
         THEN LET inner == infix_level(Len(expression_levels), s, loc + 1)
              IN  IF inner.ok /\ LexemeAt(s, inner.loc) = ")"
                  THEN Match(inner.node, inner.loc + 1)
                  ELSE NoMatch
         ELSE NoMatch
    ELSE IF expression_levels[k].arity = 1
    THEN LET operand == infix_level(k, s, loc + 1)
         IN  IF LexemeAt(s, loc) = expression_levels[k].op /\ operand.ok
             THEN Match(ExpressionNode(expression_levels[k].cls,
                                       << operand.node >>), operand.loc)
             ELSE infix_level(k - 1, s, loc)
    ELSE LET first == infix_level(k - 1, s, loc)
             chain == infix_operands(k, s, first.loc, << first.node >>)
         IN  IF ~first.ok THEN NoMatch
             ELSE IF Len(chain.operands) > 1
             THEN Match(ExpressionNode(expression_levels[k].cls,
                                       chain.operands), chain.loc)
             ELSE first

\* Grammar.expression applied to a whole text
expression(s) ==
    LET parsed == infix_level(Len(expression_levels), s, 1)
    IN  IF parsed.ok /\ parsed.loc = Len(s) + 1 THEN Ok(parsed.node)
        ELSE Err("ParseException")

\* the texts handed to the parser
ExpressionSources == UNION {[1 .. n -> Lexemes] : n \in 1 .. MaxLexemes}

InitExpression ==
    /\ NoContext
    /\ NoParser
    /\ NoVisitor
    /\ NoObjects

\* Grammar.expression.parse_string(text)
parse_expression(text) ==
    LET parsed == expression(text)
    IN  /\ last_op' = "expression"
        /\ argument' = Some(text)
        /\ raised' = IF parsed.ok THEN NoError ELSE parsed.error
        /\ returned' = IF parsed.ok THEN Value(parsed.value) ELSE Nothing
        /\ UNCHANGED << state, buffers, added, open_order, captured,
                        parser_vars, stop_vars, visitor_vars, object_vars >>

\* one text is parsed in a run
NextExpression ==
    /\ last_op = "__init__"
    /\ \E text \in ExpressionSources : parse_expression(text)

SpecExpression == InitExpression /\ [][NextExpression]_vars


\* the node of a factor, and of an operator applied to operands
Leaf(f) == ExpressionNode(f, << >>)

Op(cls, operands) == ExpressionNode(cls, operands)

\* the classes from the tightest binding to the loosest
BindingOrder ==
    << Factors, {"Neg", "Pos"}, {"Div"}, {"Mul"}, {"Sub"}, {"Add"} >>

Tightness(cls) == CHOOSE i \in DOMAIN BindingOrder : cls \in BindingOrder[i]

\* every operand of a binary node binds tighter than the node, and the
\* operand of a unary node is a unary node or a factor
RECURSIVE BoundByPrecedence(_)
BoundByPrecedence(node) ==
    \A i \in DOMAIN node.operands :
        /\ IF node.cls \in {"Neg", "Pos"}
           THEN Tightness(node.operands[i].cls) <= Tightness(node.cls)
           ELSE Tightness(node.operands[i].cls) < Tightness(node.cls)
        /\ BoundByPrecedence(node.operands[i])

\* the factors of a node, read from left to right
RECURSIVE FactorsOfOperands(_, _)
RECURSIVE FactorsOf(_)
FactorsOfOperands(operands, i) ==
    IF i > Len(operands) THEN << >>
    ELSE FactorsOf(operands[i]) \o FactorsOfOperands(operands, i + 1)

FactorsOf(node) ==
    IF node.cls \in Factors THEN << node.cls >>
    ELSE FactorsOfOperands(node.operands, 1)

\* the factors of a text, read from left to right
RECURSIVE FactorsIn(_)
FactorsIn(s) ==
    IF s = << >> THEN << >>
    ELSE IF Head(s) \in Factors THEN << Head(s) >> \o FactorsIn(Tail(s))
    ELSE FactorsIn(Tail(s))

Parenthesised(s) == \E i \in DOMAIN s : s[i] \in {"(", ")"}

(* C21: the macro expression grammar binds, from tightest to loosest,      *)
(* unary + and -, division, multiplication, subtraction, addition, and     *)
(* groups a chain of one operator from left to right.  For all factors     *)
(* p, q, r the text p+qxr parses as Add(p, Mul(q, r)), p-q+r as            *)
(* Add(Sub(p, q), r) and pxq/r as Mul(p, Div(q, r)); and in the node of    *)
(* every text without parentheses each operand binds tighter than the      *)
(* operator it is an operand of and the factors keep the order of the text.*)
C21_PrecedenceAndAssociativity ==
    last_op = "expression" =>
        LET text == Unwrap(argument)
        IN  /\ \A p, q, r \in Factors :
                  /\ text = << p, "+", q, "x", r >> =>
                         returned = Value(Op("Add", << Leaf(p),
                                      Op("Mul", << Leaf(q), Leaf(r) >>) >>))
                  /\ text = << p, "-", q, "+", r >> =>
                         returned = Value(Op("Add", <<
                                      Op("Sub", << Leaf(p), Leaf(q) >>),
                                      Leaf(r) >>))
                  /\ text = << p, "x", q, "/", r >> =>
                         returned = Value(Op("Mul", << Leaf(p),
                                      Op("Div", << Leaf(q), Leaf(r) >>) >>))
            /\ (raised = NoError /\ ~Parenthesised(text)) =>
                  /\ BoundByPrecedence(returned.value)
                  /\ FactorsOf(returned.value) = FactorsIn(text)

\* a-b+c was parsed as Add(Sub(a, b), c)
C21_Witness ==
    /\ last_op = "expression"
    /\ argument = Some(<< "a", "-", "b", "+", "c" >>)
    /\ returned = Value(Op("Add", << Op("Sub", << Leaf("a"), Leaf("b") >>),
                                    Leaf("c") >>))


----------------------------------------------------------------------------
(* Part VI (specification SpecDCodes): Grammar.d_codes under the root      *)
(* loop of Grammar.build (parser/pyparsing/grammar.py).  argument is the   *)
(* text handed to the parser, a sequence of characters; returned is the    *)
(* list of nodes parsed and the place the parse stopped at.                *)

\* digits after the D of one D-code
MaxDigits == 3

Digits == {"0", "1", "2", "3"}

CoordinateTypes == {"X", "Y", "I", "J"}

CharAt(s, loc) == IF loc <= Len(s) THEN s[loc] ELSE "end"

\* the place after the longest run of characters of a set, from loc on
RECURSIVE RunEnd(_, _, _)
RunEnd(s, loc, chars) ==
    IF CharAt(s, loc) \in chars THEN RunEnd(s, loc + 1, chars) ELSE loc

\* an element that did not match
Unmatched == [ok |-> FALSE, tokens |-> << >>, loc |-> 0, error |-> NoError]

\* an element that matched: the tokens it adds and the place it ended at
Matched(matched, loc) ==
    [ok |-> TRUE, tokens |-> matched, loc |-> loc, error |-> NoError]

\* pp.ParseFatalException, or an exception of a parse action: no
\* alternative is tried after it
Fatal(error) == [ok |-> FALSE, tokens |-> << >>, loc |-> 0, error |-> error]

\* Grammar.coordinate: one_of(X Y I J) + integer, as a Coordinate node
grammar_coordinate(s, loc) ==
    IF CharAt(s, loc) \in CoordinateTypes /\ CharAt(s, loc + 1) \in Digits
    THEN Matched(<< s[loc] >>, RunEnd(s, loc + 1, Digits))
    ELSE Unmatched

\* pp.Opt(element)
Opt(element, loc) == IF element.ok THEN element ELSE Matched(<< >>, loc)

\* pp.Regex(r"D0*" + digit): D, every zero that follows, the digit
regex_d0(digit, s, loc) ==
    LET zeros == RunEnd(s, loc + 1, {"0"})
    IN  IF CharAt(s, loc) = "D" /\ CharAt(s, zeros) = digit
        THEN Matched(<< SubSeq(s, loc, zeros) >>, zeros + 1)
        ELSE Unmatched

\* pp.Regex(r"D0*[0-9]*"): D and every digit that follows
regex_dnn(s, loc) ==
    LET digits == RunEnd(s, loc + 1, Digits)
    IN  IF CharAt(s, loc) = "D"
        THEN Matched(<< SubSeq(s, loc, digits - 1) >>, digits)
        ELSE Unmatched

\* a node of class cls made from the coordinates and the code matched
DCodeNode(cls, coordinates, code) ==
    [cls |-> cls, coordinates |-> coordinates, code |-> code]

\* d01: coordinate + coordinate + Opt(coordinate) + Opt(coordinate) +
\* Regex(D0*1); every field of D01 is optional
d01(s, loc) ==
    LET x == grammar_coordinate(s, loc)
        y == grammar_coordinate(s, x.loc)
        i == Opt(grammar_coordinate(s, y.loc), y.loc)
        j == Opt(grammar_coordinate(s, i.loc), i.loc)
        code == regex_d0("1", s, j.loc)
    IN  IF x.ok /\ y.ok /\ code.ok
        THEN Matched(<< DCodeNode("D01",
                 x.tokens \o y.tokens \o i.tokens \o j.tokens,
                 code.tokens[1]) >>, code.loc)
        ELSE Unmatched

\* d02: coordinate + coordinate + Regex(D0*2)
d02(s, loc) ==
    LET x == grammar_coordinate(s, loc)
        y == grammar_coordinate(s, x.loc)
        code == regex_d0("2", s, y.loc)
    IN  IF x.ok /\ y.ok /\ code.ok
        THEN Matched(<< DCodeNode("D02", x.tokens \o y.tokens,
                                  code.tokens[1]) >>, code.loc)
        ELSE Unmatched

\* d03: Opt(coordinate) + Opt(coordinate) + Regex(D0*3); D03 declares x and
\* y without a default, so a D03 made without both is a ValidationError
d03(s, loc) ==
    LET x == Opt(grammar_coordinate(s, loc), loc)
        y == Opt(grammar_coordinate(s, x.loc), x.loc)
        code == regex_d0("3", s, y.loc)
    IN  IF ~code.ok THEN Unmatched
        ELSE IF Len(x.tokens \o y.tokens) < 2
        THEN Fatal("ParseFatalException: Invalid D03")
        ELSE Matched(<< DCodeNode("D03", x.tokens \o y.tokens,
                                  code.tokens[1]) >>, code.loc)

\* dnn: Regex(D0*[0-9]*); the parse action asserts len(value) > 1
dnn(s, loc) ==
    LET code == regex_dnn(s, loc)
    IN  IF ~code.ok THEN Unmatched
        ELSE IF Len(code.tokens[1]) <= 1 THEN Fatal("AssertionError")
        ELSE Matched(<< DCodeNode("Dnn", << >>, code.tokens[1]) >>, code.loc)

\* pp.MatchFirst(alternatives): the first alternative that matches, or the
\* fatal error of the first alternative that raises one
RECURSIVE MatchFirst(_)
MatchFirst(alternatives) ==
    IF alternatives = << >> THEN Unmatched
    ELSE IF Head(alternatives).ok \/ Head(alternatives).error # NoError
    THEN Head(alternatives)
    ELSE MatchFirst(Tail(alternatives))

\* Grammar.d_codes: pp.MatchFirst([d01, d02, d03, dnn])
d_codes(s, loc) ==
    MatchFirst(<< d01(s, loc), d02(s, loc), d03(s, loc), dnn(s, loc) >>)

\* Grammar.command_end with DISCARD_COMMAND_BOUNDARIES: a suppressed *
command_end(s, loc) ==
    IF CharAt(s, loc) = "*" THEN Matched(<< >>, loc + 1) ELSE Unmatched

\* the characters pyparsing skips before it tries a Literal or a Regex
Whitespace == {" ", "\n"}

skip_whitespace(s, loc) == RunEnd(s, loc, Whitespace)

\* pp.Literal(literal), with its token
Literal(literal, s, loc) ==
    LET start == skip_whitespace(s, loc)
    IN  IF /\ start + Len(literal) - 1 <= Len(s)
           /\ SubSeq(s, start, start + Len(literal) - 1) = literal
        THEN Matched(<< literal >>, start + Len(literal))
        ELSE Unmatched

\* pp.Suppress(element): the match without its tokens
Suppress(element) ==
    IF element.ok THEN Matched(<< >>, element.loc) ELSE element

\* Grammar.extended_command_open with DISCARD_COMMAND_BOUNDARIES
extended_command_open(s, loc) == Suppress(Literal(<< "%" >>, s, loc))

\* Grammar.extended_command_close with DISCARD_COMMAND_BOUNDARIES
extended_command_close(s, loc) == Suppress(Literal(<< "%" >>, s, loc))

\* [+-]? from start: where the digits begin
regex_sign(s, start) ==
    IF CharAt(s, start) \in {"+", "-"} THEN start + 1 ELSE start

\* (\.[0-9]+)? from the end of the whole digits: where the number ends
regex_fraction(s, whole) ==
    IF CharAt(s, whole) = "." /\ CharAt(s, whole + 1) \in Digits
    THEN RunEnd(s, whole + 1, Digits) ELSE whole

\* Grammar.double: pp.Regex(r"[+-]?(([0-9]+(\.[0-9]+)?)|(\.[0-9]+))")
double(s, loc) ==
    LET start == skip_whitespace(s, loc)
        number == regex_sign(s, start)
        fraction == regex_fraction(s, RunEnd(s, number, Digits))
    IN  IF fraction > number
        THEN Matched(<< SubSeq(s, start, fraction - 1) >>, fraction)
        ELSE Unmatched

\* Grammar.aperture_identifier: pp.Regex(r"D[0]*[1-9][0-9]+")
aperture_identifier(s, loc) ==
    LET start == skip_whitespace(s, loc)
        zeros == RunEnd(s, start + 1, {"0"})
        digits == RunEnd(s, zeros + 1, Digits)
    IN  IF /\ CharAt(s, start) = "D"
           /\ CharAt(s, zeros) \in Digits \ {"0"}
           /\ digits > zeros + 1
        THEN Matched(<< SubSeq(s, start, digits - 1) >>, digits)
        ELSE Unmatched

ABopen(identifier) == [cls |-> "ABopen", aperture_identifier |-> identifier]

ABclose == [cls |-> "ABclose"]

\* the parameters that were not written are None
SRopen(x, y, i, j) == [cls |-> "SRopen", x |-> x, y |-> y, i |-> i, j |-> j]

SRclose == [cls |-> "SRclose"]

\* Grammar.ab_open: % + (AB + aperture_identifier) + command_end + %
ab_open(s, loc) ==
    LET open == extended_command_open(s, loc)
        ab == Literal(<< "A", "B" >>, s, open.loc)
        identifier == aperture_identifier(s, ab.loc)
        end == command_end(s, skip_whitespace(s, identifier.loc))
        close == extended_command_close(s, end.loc)
    IN  IF open.ok /\ ab.ok /\ identifier.ok /\ end.ok /\ close.ok
        THEN Matched(<< ABopen(identifier.tokens[1]) >>, close.loc)
        ELSE Unmatched

\* Grammar.ab_close: % + AB + command_end + %
ab_close(s, loc) ==
    LET open == extended_command_open(s, loc)
        ab == Literal(<< "A", "B" >>, s, open.loc)
        end == command_end(s, skip_whitespace(s, ab.loc))
        close == extended_command_close(s, end.loc)
    IN  IF open.ok /\ ab.ok /\ end.ok /\ close.ok
        THEN Matched(<< ABclose >>, close.loc)
        ELSE Unmatched

\* Grammar.aperture_block: pp.MatchFirst([ab_open, ab_close])
aperture_block(s, loc) == MatchFirst(<< ab_open(s, loc), ab_close(s, loc) >>)

\* pp.Literal(letter) + double.set_results_name(name): the value, where
\* the letter matched
sr_value(name, s) == IF name.ok THEN double(s, name.loc) ELSE name

\* pp.Opt(pp.Literal(letter) + double.set_results_name(name)): the value
\* under the name, or no value
sr_parameter(letter, s, loc) ==
    Opt(sr_value(Literal(<< letter >>, s, loc), s), loc)

\* Opt(X double) + Opt(Y double) + Opt(I double) + Opt(J double): the
\* elements in turn, each from where the one before it ended; the tokens
\* are the values of the letters, in the order of the letters
RECURSIVE sr_parameters(_, _, _, _)
sr_parameters(letters, s, loc, values) ==
    IF letters = << >> THEN Matched(values, loc)
    ELSE LET parameter == sr_parameter(Head(letters), s, loc)
         IN  sr_parameters(Tail(letters), s, parameter.loc,
                           Append(values, parameter.tokens))

\* the node of an SR open command: the parameters that were not written
\* are None
SRopenNamed(values) == SRopen(values[1], values[2], values[3], values[4])

\* Grammar.sr_open: % + (SR + Opt(X double) + Opt(Y double) + Opt(I double)
\* + Opt(J double)) + command_end + %; the node gets the named values
sr_open(s, loc) ==
    LET open == extended_command_open(s, loc)
        sr == Literal(<< "S", "R" >>, s, open.loc)
        xyij == sr_parameters(<< "X", "Y", "I", "J" >>, s, sr.loc, << >>)
        end == command_end(s, skip_whitespace(s, xyij.loc))
        close == extended_command_close(s, end.loc)
    IN  IF open.ok /\ sr.ok /\ end.ok /\ close.ok
        THEN Matched(<< SRopenNamed(xyij.tokens) >>, close.loc)
        ELSE Unmatched

\* Grammar.sr_close: % + SR + command_end + %; its parse action makes an
\* ABclose
sr_close(s, loc) ==
    LET open == extended_command_open(s, loc)
        sr == Literal(<< "S", "R" >>, s, open.loc)
        end == command_end(s, skip_whitespace(s, sr.loc))
        close == extended_command_close(s, end.loc)
    IN  IF open.ok /\ sr.ok /\ end.ok /\ close.ok
        THEN Matched(<< ABclose >>, close.loc)
        ELSE Unmatched

\* Grammar.step_repeat: pp.MatchFirst([sr_open, sr_close])
step_repeat(s, loc) == MatchFirst(<< sr_open(s, loc), sr_close(s, loc) >>)

\* Grammar.aperture: pp.MatchFirst([aperture_block, macro, step_repeat,
\* add_aperture]) over a text without %AM and %AD, which is what macro and
\* add_aperture start with
aperture(s, loc) ==
    MatchFirst(<< aperture_block(s, loc), step_repeat(s, loc) >>)

\* Grammar.build: pp.OneOrMore(pp.MatchFirst([g_codes, m_codes, d_codes,
\* aperture, properties, command_end])) over a text none of the g_codes,
\* m_codes and properties match; the loop ends where no alternative matches
RECURSIVE root(_, _, _)
root(s, loc, nodes) ==
    LET command == MatchFirst(<< d_codes(s, loc), aperture(s, loc),
                                 command_end(s, skip_whitespace(s, loc)) >>)
    IN  IF command.ok THEN root(s, command.loc, nodes \o command.tokens)
        ELSE IF command.error # NoError THEN Fatal(command.error)
        ELSE IF loc = 1 THEN Unmatched
        ELSE Matched(nodes, loc)

\* the digit strings of a D-code
DigitStrings == UNION {[1 .. n -> Digits] : n \in 0 .. MaxDigits}

\* the coordinates written before a D-code
CoordinatePrefixes ==
    {<< >>, << "X", "1" >>, << "X", "1", "Y", "2" >>,
     << "X", "1", "Y", "2", "I", "3", "J", "0" >>}

\* one command: coordinates, a D-code and the end of the command
DCodeSources ==
    {prefix \o << "D" >> \o digits \o << "*" >> :
        prefix \in CoordinatePrefixes, digits \in DigitStrings}

InitDCodes ==
    /\ NoContext
    /\ NoParser
    /\ NoVisitor
    /\ NoObjects

\* Grammar.build().parse_string(text)
parse_d_codes(text) ==
    LET parsed == root(text, 1, << >>)
    IN  /\ last_op' = "d_codes"
        /\ argument' = Some(text)
        /\ raised' = IF parsed.ok THEN NoError
                     ELSE IF parsed.error # NoError THEN parsed.error
                     ELSE "ParseException"
        /\ returned' = IF parsed.ok
                       THEN Value([nodes |-> parsed.tokens, loc |-> parsed.loc])
                       ELSE Nothing
        /\ UNCHANGED << state, buffers, added, open_order, captured,
                        parser_vars, stop_vars, visitor_vars, object_vars >>

\* one text is parsed in a run
NextDCodes ==
    /\ last_op = "__init__"
    /\ \E text \in DCodeSources : parse_d_codes(text)

SpecDCodes == InitDCodes /\ [][NextDCodes]_vars

\* the digits of a D-code without its leading zeros
RECURSIVE Significant(_)
Significant(digits) ==
    IF digits # << >> /\ Head(digits) = "0" THEN Significant(Tail(digits))
    ELSE digits

\* the whole text was parsed into this one node
ParsedAs(text, node) ==
    /\ raised = NoError
    /\ returned = Value([nodes |-> << node >>, loc |-> Len(text) + 1])

(* C22: D-codes are told apart by their whole trailing number.  A D-code   *)
(* whose number is 10 or more parses to an aperture-select node of the     *)
(* whole code, never to D01, D02 or D03 with digits left over, and D01,    *)
(* D02 and D03 with any number of leading zeros, written after their X     *)
(* and Y coordinates, parse to the plot, move and flash nodes.             *)
C22_WholeNumberDecides ==
    last_op = "d_codes" =>
        LET text == Unwrap(argument)
        IN  \A digits \in DigitStrings :
               /\ (Len(Significant(digits)) >= 2
                   /\ text = << "D" >> \o digits \o << "*" >>) =>
                      ParsedAs(text, DCodeNode("Dnn", << >>,
                                               << "D" >> \o digits))
               /\ \A n \in {"1", "2", "3"} :
                      (Significant(digits) = << n >>
                       /\ text = << "X", "1", "Y", "2", "D" >> \o digits
                                     \o << "*" >>) =>
                          ParsedAs(text, DCodeNode("D0" \o n, << "X", "Y" >>,
                                                   << "D" >> \o digits))


----------------------------------------------------------------------------
(* Part VII (specification SpecMeta): Meta (pygerber/meta.py), the         *)
(* interpreter state the G01, G02 and G03 tokens act on.  meta is the Meta *)
(* object; last_op is the method or token applied last and argument what   *)
(* it was given.                                                           *)

\* Meta.Interpolation
InterpolationLinear == 1

InterpolationClockwiseCircular == 2

InterpolationCounterclockwiseCircular == 3

Interpolations ==
    {InterpolationLinear, InterpolationClockwiseCircular,
     InterpolationCounterclockwiseCircular}

\* the aperture identifiers select_aperture is given
MetaApertures == {"10", "11"}

\* Meta(...): the fields the constructor stores
Meta(unit, current_point, current_aperture, interpolation, polarity, is_regionmode) ==
    [unit |-> unit,
     current_point |-> current_point,
     current_aperture |-> current_aperture,
     interpolation |-> interpolation,
     polarity |-> polarity,
     mirroring |-> "N",
     rotation |-> "0",
     scaling |-> "0",
     is_regionmode |-> is_regionmode]

\* the Meta objects a token can meet
Metas ==
    {Meta(unit, current_point, current_aperture, interpolation, polarity,
          is_regionmode) :
        unit \in {"MM", "IN"},
        current_point \in {<< "0", "0" >>, << "1", "2" >>},
        current_aperture \in {None} \cup {Some(id) : id \in MetaApertures},
        interpolation \in Interpolations,
        polarity \in {"D", "C"},
        is_regionmode \in BOOLEAN}

InitMeta ==
    /\ NoContext
    /\ NoParser
    /\ NoVisitor
    /\ meta \in Metas
    /\ formatter = None
    /\ document = None
    /\ loads = << >>
    /\ heap = << >>
    /\ contexts = << >>

Meta_select_aperture(id) ==
    meta' = [meta EXCEPT !.current_aperture = Some(id)]

\* faulty variant: setting the interpolation leaves the region mode
Meta_set_interpolation_ends_region(interpolation) ==
    meta' = [meta EXCEPT !.interpolation = interpolation,
                         !.is_regionmode = FALSE]

Meta_set_interpolation(interpolation) ==
    meta' = [meta EXCEPT !.interpolation = interpolation]

Meta_begin_region ==
    meta' = [meta EXCEPT !.is_regionmode = TRUE]

Meta_end_region ==
    meta' = [meta EXCEPT !.is_regionmode = FALSE]

\* the interpolation each of the G01, G02, G03 tokens stands for
G0N_interpolation(code) ==
    CASE code = "G01" -> InterpolationLinear
      [] code = "G02" -> InterpolationClockwiseCircular
      [] code = "G03" -> InterpolationCounterclockwiseCircular

\* G0N_Token: dispatch(meta) and affect_meta()
G0N_Token_affect_meta(code) ==
    Meta_set_interpolation(G0N_interpolation(code))

\* one call on the Meta object; last_op and argument record it
CalledOnMeta(op, arg) ==
    /\ last_op' = op
    /\ argument' = arg
    /\ Returns(Nothing)
    /\ UNCHANGED << state, buffers, added, open_order, captured, parser_vars,
                    stop_vars, visitor_vars, formatter, document, loads,
                    heap, contexts >>

NextMeta ==
    \/ \E id \in MetaApertures :
           Meta_select_aperture(id) /\ CalledOnMeta("select_aperture", Some(id))
    \/ \E interpolation \in Interpolations :
           /\ Meta_set_interpolation(interpolation)
           /\ CalledOnMeta("set_interpolation", Some(interpolation))
    \/ Meta_begin_region /\ CalledOnMeta("begin_region", None)
    \/ Meta_end_region /\ CalledOnMeta("end_region", None)
    \/ \E code \in {"G01", "G02", "G03"} :
           G0N_Token_affect_meta(code) /\ CalledOnMeta("G0N_Token", Some(code))

SpecMeta == InitMeta /\ [][NextMeta]_vars

-----------------------------------------------------------------------------
(* Part VIII: the angles of a rasterized arc                                *)
(* (backend/rasterized_2d/draw_actions/draw_arc.py)                         *)

\* what Vector2D.angle_between_clockwise(Vector2D.UNIT_Y) returns for the
\* start and the end of an arc, in degrees
Angles == {0, 45, 90, 135, 180, 225, 270, 315}

\* a draw action: the angles of its two ends seen from the center, and the
\* draw mode it was made in
Rasterized2DDrawArc(angle_start, angle_end, is_clockwise, is_multi_quadrant) ==
    [angle_start |-> angle_start, angle_end |-> angle_end,
     is_clockwise |-> is_clockwise, is_multi_quadrant |-> is_multi_quadrant]

Rasterized2DDrawArcs ==
    {Rasterized2DDrawArc(angle_start, angle_end, is_clockwise, is_multi_quadrant) :
        angle_start \in Angles, angle_end \in Angles,
        is_clockwise \in BOOLEAN, is_multi_quadrant \in BOOLEAN}

\* faulty variant: equal angles are a full turn in single quadrant mode too
arc_angles_always_full(self) ==
    LET angle_start == IF self.is_clockwise THEN self.angle_end
                       ELSE self.angle_start
        angle_end == IF self.is_clockwise THEN self.angle_start
                     ELSE self.angle_end
    IN  [start |-> angle_start,
         end |-> IF angle_start = angle_end
                 THEN angle_end + 360 ELSE angle_end]

\* the start and end that _draw_arc hands to image_draw.arc
arc_angles(self) ==
    LET angle_start == IF self.is_clockwise THEN self.angle_end
                       ELSE self.angle_start
        angle_end == IF self.is_clockwise THEN self.angle_start
                     ELSE self.angle_end
    IN  [start |-> angle_start,
         end |-> IF self.is_multi_quadrant /\ angle_start = angle_end
                 THEN angle_end + 360 ELSE angle_end]

InitArc ==
    /\ NoContext
    /\ NoParser
    /\ NoVisitor
    /\ NoObjects

\* Rasterized2DDrawArc._draw_arc()
draw_arc(self) ==
    /\ last_op' = "_draw_arc"
    /\ argument' = Some(self)
    /\ raised' = NoError
    /\ returned' = Value(arc_angles(self))
    /\ UNCHANGED << state, buffers, added, open_order, captured,
                    parser_vars, stop_vars, visitor_vars, object_vars >>

\* one arc is drawn in a run
NextArc ==
    /\ last_op = "__init__"
    /\ \E self \in Rasterized2DDrawArcs : draw_arc(self)

SpecArc == InitArc /\ [][NextArc]_vars

\* the arc that was drawn and the angles that were handed to the image
Drawn(self, angles) ==
    /\ last_op = "_draw_arc"
    /\ argument = Some(self)
    /\ returned = Value(angles)

(* C24: an arc whose start angle equals its end angle is drawn as a sweep   *)
(* of 360 degrees in multi quadrant mode and as a sweep of 0 degrees in     *)
(* single quadrant mode; the two angles of a clockwise arc are swapped      *)
(* before the comparison, and in every other case the end angle is the one  *)
(* that was computed.                                                       *)
C24_FullTurnOnlyInMultiQuadrant ==
    \A self \in Rasterized2DDrawArcs :
        LET first == IF self.is_clockwise THEN self.angle_end
                     ELSE self.angle_start
            second == IF self.is_clockwise THEN self.angle_start
                      ELSE self.angle_end
        IN  (last_op = "_draw_arc" /\ argument = Some(self)) =>
                LET angles == returned.value IN
                    /\ angles.start = first
                    /\ (first = second /\ self.is_multi_quadrant) =>
                           angles.end - angles.start = 360
                    /\ (first = second /\ ~self.is_multi_quadrant) =>
                           angles.end - angles.start = 0
                    /\ ~(first = second /\ self.is_multi_quadrant) =>
                           angles.end = second

\* a clockwise multi quadrant arc that ends where it starts was drawn as a
\* full turn
C24_Witness ==
    Drawn(Rasterized2DDrawArc(90, 90, TRUE, TRUE), [start |-> 90, end |-> 450])

\* a clockwise single quadrant arc was drawn with its angles swapped
C24_WitnessSwapped ==
    Drawn(Rasterized2DDrawArc(90, 180, TRUE, FALSE), [start |-> 180, end |-> 90])

-----------------------------------------------------------------------------
(* Part IX (specification SpecBlocks): Grammar.aperture_block and           *)
(* Grammar.step_repeat under the root loop of Grammar.build.  argument is   *)
(* the text handed to the parser; returned is the list of nodes parsed and  *)
(* the place the parse stopped at.                                          *)

\* commands in one text
MaxBlockCommands == 2

SRParameters == {"X", "Y", "I", "J"}

\* the text of an SR command with the parameters of a set written
SRCommand(parameters) ==
    << "%", "S", "R" >>
    \o (IF "X" \in parameters THEN << "X", "2" >> ELSE << >>)
    \o (IF "Y" \in parameters THEN << "Y", "3" >> ELSE << >>)
    \o (IF "I" \in parameters THEN << "I", "1", ".", "2" >> ELSE << >>)
    \o (IF "J" \in parameters THEN << "J", "0" >> ELSE << >>)
    \o << "*", "%" >>

\* %ABD10*%, %AB*% and %SR...*% with every subset of the parameters, the
\* empty one being %SR*%
BlockCommands ==
    {<< "%", "A", "B", "D", "1", "0", "*", "%" >>,
     << "%", "A", "B", "*", "%" >>}
    \cup {SRCommand(parameters) : parameters \in SUBSET SRParameters}

BlockCommandLists ==
    UNION {[1 .. n -> BlockCommands] : n \in 1 .. MaxBlockCommands}

\* the commands of a list written one after the other
RECURSIVE Flatten(_)
Flatten(commands) ==
    IF commands = << >> THEN << >>
    ELSE Head(commands) \o Flatten(Tail(commands))

BlockSources == {Flatten(commands) : commands \in BlockCommandLists}

\* the method of the visitor that the visit of an AB or SR node calls
aperture_visit_callback(node) ==
    CASE node.cls = "ABopen" -> "on_ab_open"
      [] node.cls = "ABclose" -> "on_ab_close"
      [] node.cls = "SRopen" -> "on_sr_open"
      [] node.cls = "SRclose" -> "on_sr_close"

InitBlocks ==
    /\ NoContext
    /\ NoParser
    /\ NoVisitor
    /\ NoObjects

\* Grammar.build().parse_string(text)
parse_aperture(text) ==
    LET parsed == root(text, 1, << >>)
    IN  /\ last_op' = "aperture"
        /\ argument' = Some(text)
        /\ raised' = IF parsed.ok THEN NoError
                     ELSE IF parsed.error # NoError THEN parsed.error
                     ELSE "ParseException"
        /\ returned' = IF parsed.ok
                       THEN Value([nodes |-> parsed.tokens, loc |-> parsed.loc])
                       ELSE Nothing
        /\ UNCHANGED << state, buffers, added, open_order, captured,
                        parser_vars, stop_vars, visitor_vars, object_vars >>

\* one text is parsed in a run
NextBlocks ==
    /\ last_op = "__init__"
    /\ \E text \in BlockSources : parse_aperture(text)

SpecBlocks == InitBlocks /\ [][NextBlocks]_vars

(* C29: the command %SR*% is parsed as a step-and-repeat close node, whose *)
(* visit calls on_sr_close; it is parsed neither as a step-and-repeat open *)
(* node without parameters nor as an aperture block close node.  The       *)
(* command %AB*% is parsed as an aperture block close node.                *)
C29_BareSRCloses ==
    \A commands \in BlockCommandLists :
        LastCall("aperture", Flatten(commands)) =>
            /\ raised = NoError
            /\ Len(returned.value.nodes) = Len(commands)
            /\ \A k \in DOMAIN commands :
                   LET node == returned.value.nodes[k]
                   IN  /\ commands[k] = SRCommand({}) =>
                              /\ node = SRclose
                              /\ aperture_visit_callback(node) = "on_sr_close"
                       /\ commands[k] = << "%", "A", "B", "*", "%" >> =>
                              node = ABclose

-----------------------------------------------------------------------------
(* Part X (specifications SpecFormatter, SpecRoundTrip and SpecDouble):     *)
(* Formatter (formatter.py).  formatter is the Formatter object: the        *)
(* settings it was made with, its base indent and the text written to its   *)
(* output.  Texts are sequences of characters.                              *)

\* characters of a body indent
MaxIndent == 2

\* nodes visited by one formatter
MaxFormatted == 6

\* character * count
RECURSIVE Repeat(_, _)
Repeat(character, count) ==
    IF count <= 0 THEN << >> ELSE << character >> \o Repeat(character, count - 1)

\* Formatter(indent_character, block_aperture_body_indent,
\* step_and_repeat_body_indent, float_decimal_places,
\* float_trim_trailing_zeros) with the indents given as numbers
Formatter(indent_character, block_aperture_body_indent, step_and_repeat_body_indent, float_decimal_places, float_trim_trailing_zeros) ==
    [block_aperture_body_indent |->
         Repeat(indent_character, block_aperture_body_indent),
     step_and_repeat_body_indent |->
         Repeat(indent_character, step_and_repeat_body_indent),
     float_decimal_places |-> float_decimal_places,
     float_trim_trailing_zeros |-> float_trim_trailing_zeros,
     lf |-> << "\n" >>,
     base_indent |-> << >>,
     output |-> << >>]

\* text.endswith(suffix)
EndsWith(text, suffix) ==
    /\ Len(suffix) <= Len(text)
    /\ SubSeq(text, Len(text) - Len(suffix) + 1, Len(text)) = suffix

\* text[:stop]: a negative stop counts from the end
SliceTo(text, stop) ==
    LET end == IF stop < 0 THEN Len(text) + stop ELSE stop
    IN  SubSeq(text, 1, IF end < 0 THEN 0
                        ELSE IF end > Len(text) THEN Len(text) ELSE end)

\* Formatter._write
Formatter_write(self, value) == [self EXCEPT !.output = @ \o value]

\* Formatter._insert_base_indent
Formatter_insert_base_indent(self) == Formatter_write(self, self.base_indent)

\* Formatter._increase_base_indent(variable_name), before the function
Formatter_increase_base_indent(self, indent_delta) ==
    [self EXCEPT !.base_indent = @ \o indent_delta]

\* Formatter._decrease_base_indent(variable_name), before the function
Formatter_decrease_base_indent(self, indent_delta) ==
    IF EndsWith(self.base_indent, indent_delta)
    THEN [self EXCEPT !.base_indent = SliceTo(@, 0 - Len(indent_delta))]
    ELSE self

\* Formatter._extended_command(cmd) around a body that writes text
Formatter_extended_command(self, cmd, text) ==
    Formatter_write(self, << "%" >> \o cmd \o text \o << "*", "%" >> \o self.lf)

\* Formatter.on_ab_close under _decrease_base_indent and
\* _decorator_insert_base_indent
on_ab_close(self, node) ==
    Formatter_extended_command(
        Formatter_insert_base_indent(
            Formatter_decrease_base_indent(self,
                                           self.block_aperture_body_indent)),
        << "A", "B" >>, << >>)

\* Formatter.on_ab_open under _decorator_insert_base_indent and
\* _increase_base_indent
on_ab_open(self, node) ==
    Formatter_extended_command(
        Formatter_increase_base_indent(Formatter_insert_base_indent(self),
                                       self.block_aperture_body_indent),
        << "A", "B" >>, node.aperture_identifier)

\* Formatter.on_sr_close under _decrease_base_indent and
\* _decorator_insert_base_indent
on_sr_close(self, node) ==
    Formatter_extended_command(
        Formatter_insert_base_indent(
            Formatter_decrease_base_indent(self,
                                           self.step_and_repeat_body_indent)),
        << "S", "R" >>, << >>)

\* f"{letter}{value}" of a parameter of SR: str(None) is None
sr_parameter_text(letter, value) ==
    << letter >> \o (IF value = None THEN << "N", "o", "n", "e" >>
                     ELSE value[1])

\* Formatter.on_sr_open under _decorator_insert_base_indent and
\* _increase_base_indent: each of the four is written if node.x is not None
on_sr_open(self, node) ==
    Formatter_extended_command(
        Formatter_increase_base_indent(Formatter_insert_base_indent(self),
                                       self.step_and_repeat_body_indent),
        << "S", "R" >>,
        IF node.x # None
        THEN sr_parameter_text("X", node.x) \o sr_parameter_text("Y", node.y)
             \o sr_parameter_text("I", node.i) \o sr_parameter_text("J", node.j)
        ELSE << >>)

\* node.visit(formatter) of an AB or SR node
Formatter_visit(self, node) ==
    CASE aperture_visit_callback(node) = "on_ab_open" -> on_ab_open(self, node)
      [] aperture_visit_callback(node) = "on_ab_close" -> on_ab_close(self, node)
      [] aperture_visit_callback(node) = "on_sr_open" -> on_sr_open(self, node)
      [] aperture_visit_callback(node) = "on_sr_close" -> on_sr_close(self, node)

\* the formatters with numbers for the two body indents
Formatters ==
    {Formatter(" ", block_aperture_body_indent, step_and_repeat_body_indent,
               0 - 1, TRUE) :
        block_aperture_body_indent \in 0 .. MaxIndent,
        step_and_repeat_body_indent \in 0 .. MaxIndent}

\* a formatter whose output is set, and nothing visited or open yet
InitFormatter ==
    /\ NoContext
    /\ NoParser
    /\ NoVisitor
    /\ meta = None
    /\ formatter \in Formatters
    /\ document = None
    /\ loads = << >>
    /\ heap = << >>
    /\ contexts = << >>

\* node.visit(formatter): open_order keeps, for every construct that is
\* open, its kind and the base indent its open node was visited with
VisitedByFormatter(node) ==
    /\ Len(visited) < MaxFormatted
    /\ formatter' = Formatter_visit(formatter, node)
    /\ visited' = Append(visited, node.cls)
    /\ last_op' = aperture_visit_callback(node)
    /\ argument' = Some(node)
    /\ Returns(Nothing)
    /\ UNCHANGED << state, buffers, added, captured, parser_vars, stop_vars,
                    visitor, meta, document, loads, heap, contexts >>

OpenedWith(kind) == [kind |-> kind, base_indent |-> formatter.base_indent]

\* the nodes of a properly nested file, in order: an open node inside
\* what is open, or the close node of the innermost open construct
NextFormatter ==
    \/ /\ Len(open_order) < MaxDepth
       /\ VisitedByFormatter(ABopen(<< "D", "1", "0" >>))
       /\ open_order' = Append(open_order, OpenedWith("AB"))
    \/ /\ Len(open_order) < MaxDepth
       /\ VisitedByFormatter(SRopen(<< << "2" >> >>, << << "3" >> >>, None, None))
       /\ open_order' = Append(open_order, OpenedWith("SR"))
    \/ /\ open_order # << >>
       /\ open_order[Len(open_order)].kind = "AB"
       /\ VisitedByFormatter(ABclose)
       /\ open_order' = SubSeq(open_order, 1, Len(open_order) - 1)
    \/ /\ open_order # << >>
       /\ open_order[Len(open_order)].kind = "SR"
       /\ VisitedByFormatter(SRclose)
       /\ open_order' = SubSeq(open_order, 1, Len(open_order) - 1)

SpecFormatter == InitFormatter /\ [][NextFormatter]_vars

(* C27: the base indent stacks and unstacks symmetrically.  In a properly  *)
(* nested sequence of AB and SR open and close nodes, with body indents of *)
(* any width, zero included, the base indent after a close node is the     *)
(* base indent before the matching open node, and it is empty when nothing *)
(* is open.                                                                *)
C27_IndentUnstacks ==
    [][(last_op' \in {"on_ab_close", "on_sr_close"}
        /\ Len(open_order') < Len(open_order)) =>
          /\ formatter'.base_indent =
                 open_order[Len(open_order)].base_indent
          /\ (open_order' = << >> => formatter'.base_indent = << >>)]_vars


\* Formatter.format(source, output): the nodes of the file are visited in
\* order
RECURSIVE Formatter_format(_, _)
Formatter_format(self, nodes) ==
    IF nodes = << >> THEN self
    ELSE Formatter_format(Formatter_visit(self, Head(nodes)), Tail(nodes))

\* Formatter(): no indents, the line end after every command
DefaultFormatter == Formatter(" ", 0, 0, 0 - 1, TRUE)

\* the canonical form of a text under that formatter: its commands, one on
\* a line
RECURSIVE Canonical(_)
Canonical(commands) ==
    IF commands = << >> THEN << >>
    ELSE Head(commands) \o << "\n" >> \o Canonical(Tail(commands))

InitRoundTrip ==
    /\ NoContext
    /\ NoParser
    /\ NoVisitor
    /\ NoObjects

\* what the round trip gives: the nodes parsed, the text written for them
\* and the nodes parsed from that text
round_trip(text, parsed, formatted, again) ==
    /\ last_op' = "format"
    /\ argument' = Some(text)
    /\ raised' = IF ~parsed.ok \/ ~again.ok THEN "ParseException"
                 ELSE NoError
    /\ returned' = IF parsed.ok
                   THEN Value([nodes |-> parsed.tokens,
                               formatted |-> formatted,
                               again |-> IF again.ok THEN Some(again.tokens)
                                         ELSE None])
                   ELSE Nothing
    /\ UNCHANGED << state, buffers, added, open_order, captured,
                    parser_vars, stop_vars, visitor_vars, object_vars >>

\* Grammar.build().parse_string(formatted), on what was written
parse_formatted(text, parsed, formatted) ==
    round_trip(text, parsed, formatted, root(formatted, 1, << >>))

\* Formatter().format(nodes, output), on the nodes that were parsed
format_nodes(text, parsed) ==
    parse_formatted(text, parsed,
        Formatter_format(DefaultFormatter, parsed.tokens).output)

\* parse the text, format the nodes, parse what was written
format_parsed(text) == format_nodes(text, root(text, 1, << >>))

\* one text makes the round trip in a run
NextRoundTrip ==
    /\ last_op = "__init__"
    /\ \E text \in BlockSources : format_parsed(text)

SpecRoundTrip == InitRoundTrip /\ [][NextRoundTrip]_vars

(* C25: the round trip.  What the formatter writes for the nodes parsed    *)
(* from a text is the canonical form of the text, and parsing it again     *)
(* gives the same nodes; this holds for SR open commands with any subset   *)
(* of the parameters X, Y, I and J, each of which is written exactly when  *)
(* it is present.                                                          *)
C25_RoundTrip ==
    \A commands \in BlockCommandLists :
        LastCall("format", Flatten(commands)) =>
            /\ raised = NoError
            /\ returned.value.formatted = Canonical(commands)
            /\ returned.value.again = Some(returned.value.nodes)


\* a Double is a number of tenths, from 0 to this many
MaxTenths == 1200

\* the largest float_decimal_places
MaxDecimalPlaces == 2

\* the decimal digits of a natural number
RECURSIVE DecimalDigits(_)
DecimalDigits(number) ==
    LET digit == << "0", "1", "2", "3", "4", "5", "6", "7", "8", "9" >>
    IN  IF number < 10 THEN << digit[number + 1] >>
        ELSE DecimalDigits(number \div 10) \o << digit[(number % 10) + 1] >>

\* str(value) of a float of so many tenths
double_str(tenths) ==
    DecimalDigits(tenths \div 10) \o << "." >> \o DecimalDigits(tenths % 10)

\* f"{value:.{places}f}": the value rounded to the places, a tie to the
\* even digit, without a point when there are no places
double_fixed(tenths, places) ==
    LET whole == tenths \div 10
        tenth == tenths % 10
        up == tenth > 5 \/ (tenth = 5 /\ whole % 2 = 1)
    IN  IF places = 0 THEN DecimalDigits(IF up THEN whole + 1 ELSE whole)
        ELSE DecimalDigits(whole) \o << "." >> \o DecimalDigits(tenth)
             \o Repeat("0", places - 1)

\* text.rstrip(characters)
RECURSIVE rstrip(_, _)
rstrip(text, characters) ==
    IF text # << >> /\ text[Len(text)] \in characters
    THEN rstrip(SubSeq(text, 1, Len(text) - 1), characters)
    ELSE text

\* Formatter._fmt_double
Formatter_fmt_double(self, value) ==
    IF self.float_decimal_places < 0 THEN double_str(value)
    ELSE LET number == double_fixed(value, self.float_decimal_places)
         IN  IF self.float_trim_trailing_zeros
             THEN rstrip(rstrip(number, {"0"}), {"."})
             ELSE number

\* the formatters with every setting of the two float options
DoubleFormatters ==
    {Formatter(" ", 0, 0, float_decimal_places, float_trim_trailing_zeros) :
        float_decimal_places \in (0 - 1) .. MaxDecimalPlaces,
        float_trim_trailing_zeros \in BOOLEAN}

InitDouble ==
    /\ NoContext
    /\ NoParser
    /\ NoVisitor
    /\ meta = None
    /\ formatter \in DoubleFormatters
    /\ document = None
    /\ loads = << >>
    /\ heap = << >>
    /\ contexts = << >>

\* formatter._fmt_double(value)
fmt_double(value) ==
    /\ last_op' = "_fmt_double"
    /\ argument' = Some(value)
    /\ Returns(Value(Formatter_fmt_double(formatter, value)))
    /\ UNCHANGED << state, buffers, added, open_order, captured,
                    parser_vars, stop_vars, visitor_vars, object_vars >>

\* one value is formatted in a run
NextDouble ==
    /\ last_op = "__init__"
    /\ \E value \in 0 .. MaxTenths : fmt_double(value)

SpecDouble == InitDouble /\ [][NextDouble]_vars

\* the characters of a number before its point
IntegerPart(number) ==
    LET points == {k \in DOMAIN number : number[k] = "."}
    IN  IF points = {} THEN number
        ELSE SubSeq(number, 1, (CHOOSE k \in points : TRUE) - 1)

(* C28: with float_decimal_places >= 0 and float_trim_trailing_zeros on,   *)
(* _fmt_double removes only zeros after the decimal point, and the point   *)
(* when no digit is left after it; the digits of the integer part stay as  *)
(* they are, for every value and every number of places, 0 included.       *)
C28_IntegerPartKept ==
    (/\ last_op = "_fmt_double"
     /\ formatter.float_decimal_places >= 0
     /\ formatter.float_trim_trailing_zeros) =>
        LET number == double_fixed(argument[1], formatter.float_decimal_places)
            written == returned.value
        IN  /\ IntegerPart(written) = IntegerPart(number)
            /\ written = SubSeq(number, 1, Len(written))
            /\ \A k \in Len(written) + 1 .. Len(number) :
                   number[k] \in {"0", "."}
            /\ written = IntegerPart(number)
               \/ written[Len(written)] \notin {"0", "."}

-----------------------------------------------------------------------------
(* Part XI (specification SpecDocument): GerberDocument                     *)
(* (language_server/_server/documents/gerber.py), the document of the       *)
(* language server with its cache of the parsed AST.  loads records, for    *)
(* every call of load_ast_from_code, the code and whether the parser was    *)
(* invoked.                                                                 *)

\* calls of load_ast_from_code on one document
MaxLoads == 4

\* codes the parser accepts, and codes it raises on: the root of the
\* grammar is OneOrMore, so the empty text is one of these
ValidCodes == {"G04*", "D10*", "M02*"}

InvalidCodes == {"", "G0"}

Codes == ValidCodes \cup InvalidCodes

Uris == {"file:///a.grb", "file:///b.grb"}

\* hashlib.sha256(s.encode("utf-8")).hexdigest(): a digest, different for
\* different codes
sha256(s) == "sha256:" \o s

\* the File node parsed from a code
File(source) == [cls |-> "File", source |-> source]

\* Parser.parse(code): the AST of the code, or an exception
Parser_parse(code) ==
    IF code \in InvalidCodes THEN Err("ParseException") ELSE Ok(File(code))

\* GerberDocument(gls)
GerberDocument == [ast |-> None, source_hash |-> sha256(""), uri |-> ""]

InitDocument ==
    /\ NoContext
    /\ NoParser
    /\ NoVisitor
    /\ meta = None
    /\ formatter = None
    /\ document = GerberDocument
    /\ loads = << >>
    /\ heap = << >>
    /\ contexts = << >>

\* faulty variant: the hash is stored before the code is parsed
load_ast_from_code_hash_first(self, code) ==
    LET code_hash == sha256(code)
        parsed == Parser_parse(code)
    IN  /\ Len(loads) < MaxLoads
        /\ IF code_hash = self.source_hash /\ self.ast # None
           THEN /\ document' = self
                /\ loads' = Append(loads, [code |-> code, parsed |-> FALSE])
                /\ Returns(Value(self.ast[1]))
           ELSE /\ loads' = Append(loads, [code |-> code, parsed |-> TRUE])
                /\ IF parsed.ok
                   THEN /\ document' = [self EXCEPT !.ast = Some(parsed.value),
                                                    !.source_hash = sha256(code)]
                        /\ Returns(Value(parsed.value))
                   ELSE /\ document' = [self EXCEPT !.source_hash = sha256(code)]
                        /\ raised' = parsed.error
                        /\ returned' = Nothing

\* GerberDocument.load_ast_from_code(code)
load_ast_from_code(self, code) ==
    LET code_hash == sha256(code)
        parsed == Parser_parse(code)
    IN  /\ Len(loads) < MaxLoads
        /\ IF code_hash = self.source_hash /\ self.ast # None
           THEN /\ document' = self
                /\ loads' = Append(loads, [code |-> code, parsed |-> FALSE])
                /\ Returns(Value(self.ast[1]))
           ELSE /\ loads' = Append(loads, [code |-> code, parsed |-> TRUE])
                /\ IF parsed.ok
                   THEN /\ document' = [self EXCEPT !.ast = Some(parsed.value),
                                                    !.source_hash = sha256(code)]
                        /\ Returns(Value(parsed.value))
                   ELSE /\ document' = self
                        /\ raised' = parsed.error
                        /\ returned' = Nothing

\* GerberDocument.on_open(params): the uri and the text of the document
\* opened
on_open(uri, text) ==
    load_ast_from_code([document EXCEPT !.uri = uri], text)

\* GerberDocument.on_change(params): load_ast_from_uri reads the source of
\* the document from the workspace
on_change(source) == load_ast_from_code(document, source)

\* a call on the document
CalledOnDocument(op, code) ==
    /\ last_op' = op
    /\ argument' = Some(code)
    /\ UNCHANGED << state, buffers, added, open_order, captured, parser_vars,
                    stop_vars, visitor_vars, meta, formatter, heap, contexts >>

NextDocument ==
    \/ \E code \in Codes :
           /\ load_ast_from_code(document, code)
           /\ CalledOnDocument("load_ast_from_code", code)
    \/ \E uri \in Uris, code \in Codes :
           on_open(uri, code) /\ CalledOnDocument("on_open", code)
    \/ \E code \in Codes :
           on_change(code) /\ CalledOnDocument("on_change", code)

SpecDocument == InitDocument /\ [][NextDocument]_vars

\* the last call of load_ast_from_code invoked the parser
ParserInvoked == loads # << >> /\ loads[Len(loads)].parsed

(* C30: the AST cache of a GerberDocument is consistent after any sequence *)
(* of load_ast_from_code calls.  Whenever an AST is held, source_hash is   *)
(* the SHA-256 of the code the AST was parsed from; a call that returns    *)
(* returns the AST of the code it was given; the parser is invoked only    *)
(* when the hash of the code differs from source_hash or no AST is held;   *)
(* and a parse that raises leaves the AST and the hash as they were.       *)
C30_CacheConsistent ==
    /\ [](document.ast # None =>
              document.source_hash = sha256(document.ast[1].source))
    /\ [][\A code \in Codes :
             argument' = Some(code) =>
                 /\ raised' = NoError =>
                        /\ returned' = Value(File(code))
                        /\ document'.ast = Some(File(code))
                 /\ ParserInvoked' =>
                        \/ sha256(code) # document.source_hash
                        \/ document.ast = None
                 /\ raised' # NoError =>
                        /\ ParserInvoked'
                        /\ document'.ast = document.ast
                        /\ document'.source_hash = document.source_hash]_vars

\* a code that does not parse was loaded after one that does: the AST of
\* the first is still held
C30_Witness ==
    /\ last_op = "on_change"
    /\ raised = "ParseException"
    /\ ParserInvoked
    /\ document.ast = Some(File("G04*"))
    /\ document.source_hash = sha256("G04*")

\* the code held was loaded again and the parser was not invoked
C30_WitnessCached ==
    /\ last_op = "load_ast_from_code"
    /\ argument = Some("D10*")
    /\ Len(loads) = 2
    /\ loads[1].parsed
    /\ ~loads[2].parsed
    /\ returned = Value(File("D10*"))

-----------------------------------------------------------------------------
(* Part XII (specification SpecContexts): two Parser2Context objects made   *)
(* from one Parser2ContextOptions.  A CommandBuffer2 is an object: heap     *)
(* maps the references of the buffers that are held somewhere to the        *)
(* buffers, and the fields of the options and of the contexts hold          *)
(* references.  argument is the context the last call was made on and      *)
(* added the number of calls made on the two contexts.                      *)

\* calls on the two contexts in one run
MaxCalls == 5

\* commands in one buffer
MaxBuffered == 1

\* buffers on the block stack of one of the contexts
MaxStacked == 1

\* the two contexts
Instances == {1, 2}

\* Parser2ContextOptions() with its heap, and Parser2ContextOptions with
\* the three buffers given, each an object of its own
SharedOptions ==
    {[options |-> OptionsDefault, heap |-> << >>],
     [options |-> [initial_state |-> None,
                   initial_main_command_buffer |-> Some(1),
                   initial_region_command_buffer |-> Some(2),
                   initial_block_command_buffer |-> Some(3)],
      heap |-> << CommandBuffer2(<< >>), CommandBuffer2(<< >>),
                  CommandBuffer2(<< >>) >>]}

\* the command a context adds: one that tells who added it
ContextCommand(self) == self

\* the reference of a new object: one that no object held has, made of
\* the context and the field that will hold the object
NewReference(self, field) == 10 * self + field

\* the heap with one more object
Allocate(objects, reference, buffer) ==
    [r \in DOMAIN objects \cup {reference} |->
        IF r = reference THEN buffer ELSE objects[r]]

\* the heap without the objects of some references, which nothing holds
\* any more
Release(objects, references) ==
    [r \in DOMAIN objects \ references |-> objects[r]]

\* Parser2Context(options): the context, and the heap after the call
Parser2Context_init(self, shared_options, objects) ==
    LET given == shared_options.initial_main_command_buffer
    IN  [context |->
             [options |-> shared_options,
              state |-> IF IsNone(shared_options.initial_state)
                        THEN State2Default
                        ELSE Unwrap(shared_options.initial_state),
              main_command_buffer |-> IF IsNone(given)
                                      THEN NewReference(self, 1)
                                      ELSE Unwrap(given),
              region_command_buffer |-> None,
              block_command_buffer_stack |-> << >>,
              step_and_repeat_command_buffer |-> None],
         heap |-> IF IsNone(given)
                  THEN Allocate(objects, NewReference(self, 1),
                                CommandBuffer2(<< >>))
                  ELSE objects]

\* two contexts are made from one options object, one after the other
InitContexts ==
    /\ NoContext
    /\ NoParser
    /\ NoVisitor
    /\ meta = None
    /\ formatter = None
    /\ document = None
    /\ loads = << >>
    /\ \E shared \in SharedOptions :
           LET first == Parser2Context_init(1, shared.options, shared.heap)
               second == Parser2Context_init(2, shared.options, first.heap)
           IN  /\ contexts = << first.context, second.context >>
               /\ heap = second.heap

\* the context after a call, and the heap after it
Becomes(self, context, objects) ==
    /\ contexts' = [contexts EXCEPT ![self] = context]
    /\ heap' = objects
    /\ Returns(Nothing)

\* a call that raises changes nothing
Fails(error) ==
    /\ raised' = error
    /\ returned' = Nothing
    /\ UNCHANGED << contexts, heap >>

\* an initial buffer's copy, or a new empty buffer
CopyOrNew(initial) ==
    IF IsNone(initial) THEN CommandBuffer2(<< >>)
    ELSE BufferCopy(heap[Unwrap(initial)])

\* buffer.add_command(command) on the object a reference leads to
AddTo(self, reference, c) ==
    /\ Len(heap[reference].commands) < MaxBuffered
    /\ Becomes(self, contexts[self],
               [heap EXCEPT ![reference] = BufferAdd(@, c)])

\* Parser2Context.push_block_command_buffer
Parser2Context_push_block_command_buffer(self) ==
    LET reference ==
            NewReference(self, 4 + Len(contexts[self].block_command_buffer_stack))
    IN  /\ Len(contexts[self].block_command_buffer_stack) < MaxStacked
        /\ Becomes(self,
                   [contexts[self] EXCEPT !.block_command_buffer_stack =
                        Append(@, reference)],
                   Allocate(heap, reference, CopyOrNew(
                       contexts[self].options.initial_block_command_buffer)))

\* Parser2Context.pop_block_command_buffer
Parser2Context_pop_block_command_buffer(self) ==
    IF Len(contexts[self].block_command_buffer_stack) = 0
    THEN Fails("ReferencedNotInitializedBlockBufferError")
    ELSE Becomes(self,
                 [contexts[self] EXCEPT !.block_command_buffer_stack =
                      SubSeq(@, 1, Len(@) - 1)],
                 Release(heap, {contexts[self].block_command_buffer_stack[
                     Len(contexts[self].block_command_buffer_stack)]}))

\* Parser2Context.set_region_command_buffer
Parser2Context_set_region_command_buffer(self) ==
    Becomes(self,
            [contexts[self] EXCEPT !.region_command_buffer =
                 Some(NewReference(self, 2))],
            Allocate(heap, NewReference(self, 2), CopyOrNew(
                contexts[self].options.initial_region_command_buffer)))

\* Parser2Context.unset_region_command_buffer
Parser2Context_unset_region_command_buffer(self) ==
    Becomes(self, [contexts[self] EXCEPT !.region_command_buffer = None],
            Release(heap, {NewReference(self, 2)}))

\* Parser2Context.set_step_and_repeat_command_buffer: the copy is taken of
\* the initial region buffer
Parser2Context_set_step_and_repeat_command_buffer(self) ==
    Becomes(self,
            [contexts[self] EXCEPT !.step_and_repeat_command_buffer =
                 Some(NewReference(self, 3))],
            Allocate(heap, NewReference(self, 3), CopyOrNew(
                contexts[self].options.initial_region_command_buffer)))

\* Parser2Context.unset_step_and_repeat_command_buffer
Parser2Context_unset_step_and_repeat_command_buffer(self) ==
    Becomes(self,
            [contexts[self] EXCEPT !.step_and_repeat_command_buffer = None],
            Release(heap, {NewReference(self, 3)}))

\* Parser2Context.set_state with the State2 a setter of State2 returns
Parser2Context_set_state(self, new_state) ==
    Becomes(self, [contexts[self] EXCEPT !.state = new_state], heap)

\* Parser2Context.set_is_region
Parser2Context_set_is_region(self, is_region) ==
    Parser2Context_set_state(self,
        [contexts[self].state EXCEPT !.is_region = is_region])

\* Parser2Context.set_is_aperture_block
Parser2Context_set_is_aperture_block(self, is_aperture_block) ==
    Parser2Context_set_state(self,
        [contexts[self].state EXCEPT !.is_aperture_block = is_aperture_block])

\* Parser2Context.set_is_step_and_repeat
Parser2Context_set_is_step_and_repeat(self, is_step_and_repeat) ==
    Parser2Context_set_state(self,
        [contexts[self].state EXCEPT !.is_step_and_repeat = is_step_and_repeat])

\* Parser2Context.add_command
Parser2Context_add_command(self, c) ==
    LET context == contexts[self]
    IN  IF context.state.is_region
        THEN IF IsNone(context.region_command_buffer)
             THEN Fails("RegionNotInitializedError")
             ELSE AddTo(self, Unwrap(context.region_command_buffer), c)
        ELSE IF context.state.is_aperture_block
        THEN IF Len(context.block_command_buffer_stack) = 0
             THEN Fails("ReferencedNotInitializedBlockBufferError")
             ELSE AddTo(self, context.block_command_buffer_stack[
                            Len(context.block_command_buffer_stack)], c)
        ELSE IF context.state.is_step_and_repeat
        THEN IF IsNone(context.step_and_repeat_command_buffer)
             THEN Fails("StepAndRepeatNotInitializedError")
             ELSE AddTo(self, Unwrap(context.step_and_repeat_command_buffer), c)
        ELSE AddTo(self, context.main_command_buffer, c)

\* a call on one of the contexts
CalledOnContext(self) ==
    /\ added < MaxCalls
    /\ added' = added + 1
    /\ last_op' = "Parser2Context"
    /\ argument' = Some(self)
    /\ UNCHANGED << options, state, buffers, open_order, captured,
                    current_token, parser_vars, stop_vars, visitor_vars,
                    meta, formatter, document, loads >>

\* the two contexts are stepped in any interleaving
NextContexts ==
    \E self \in Instances :
        \/ /\ Parser2Context_push_block_command_buffer(self)
           /\ CalledOnContext(self)
        \/ /\ Parser2Context_pop_block_command_buffer(self)
           /\ CalledOnContext(self)
        \/ /\ Parser2Context_set_region_command_buffer(self)
           /\ CalledOnContext(self)
        \/ /\ Parser2Context_unset_region_command_buffer(self)
           /\ CalledOnContext(self)
        \/ /\ Parser2Context_set_step_and_repeat_command_buffer(self)
           /\ CalledOnContext(self)
        \/ /\ Parser2Context_unset_step_and_repeat_command_buffer(self)
           /\ CalledOnContext(self)
        \/ \E is_region \in BOOLEAN :
               /\ Parser2Context_set_is_region(self, is_region)
               /\ CalledOnContext(self)
        \/ \E is_aperture_block \in BOOLEAN :
               /\ Parser2Context_set_is_aperture_block(self, is_aperture_block)
               /\ CalledOnContext(self)
        \/ \E is_step_and_repeat \in BOOLEAN :
               /\ Parser2Context_set_is_step_and_repeat(self,
                                                        is_step_and_repeat)
               /\ CalledOnContext(self)
        \/ /\ Parser2Context_add_command(self, ContextCommand(self))
           /\ CalledOnContext(self)

SpecContexts == InitContexts /\ [][NextContexts]_vars

\* the commands of the buffer a reference leads to
CommandsOf(objects, reference) == objects[reference].commands

\* what can be seen through a context: its state and the commands of its
\* main, region, block and step-and-repeat buffers
Observed(all, objects, self) ==
    [state |-> all[self].state,
     main |-> CommandsOf(objects, all[self].main_command_buffer),
     region |-> [k \in DOMAIN all[self].region_command_buffer |->
                    CommandsOf(objects, all[self].region_command_buffer[k])],
     block |-> [k \in DOMAIN all[self].block_command_buffer_stack |->
                   CommandsOf(objects, all[self].block_command_buffer_stack[k])],
     step_and_repeat |->
         [k \in DOMAIN all[self].step_and_repeat_command_buffer |->
             CommandsOf(objects, all[self].step_and_repeat_command_buffer[k])]]

(* C26: independent runs share no mutable state.  Of two Parser2Context    *)
(* objects made from the same Parser2ContextOptions and stepped in any     *)
(* interleaving, a call on one changes nothing that can be seen through    *)
(* the other: not its state and not the commands of its main, region,      *)
(* block and step-and-repeat buffers.                                      *)
C26_ContextsIndependent ==
    [][\A self \in Instances : \A other \in Instances \ {self} :
          argument' = Some(self) =>
              Observed(contexts', heap', other)
                  = Observed(contexts, heap, other)]_vars

=============================================================================
